---- MODULE Spec2Model ----
(***************************************************************************)
(* A model of the PVSS transcript code of ferveo (ferveo/src/pvss.rs).     *)
(*                                                                         *)
(* The pairing groups G1, G2 and GT all have the prime order P of the      *)
(* scalar field.  A group element is represented by its discrete logarithm *)
(* with respect to the group's fixed generator, so that                    *)
(*   - the generator is 1 and the identity is 0,                           *)
(*   - point addition is addition mod P,                                   *)
(*   - scalar multiplication is multiplication mod P,                      *)
(*   - the pairing e(a*G, b*H) = e(G,H)^(a*b) is multiplication mod P.     *)
(* Sequences are 1-based; the code's 0-based index i is position i + 1.    *)
(***************************************************************************)
EXTENDS Integers, Sequences, FiniteSets, TLC

\* ------------------------------------------------------------------------
\* Bounds of the model
\* ------------------------------------------------------------------------
MaxValidators == 2

MaxThreshold == 2

MaxDealers == 2

MaxMessageLen == 1

MaxAadLen == 1

\* The largest number of participants of a refresh or recovery round
MaxParticipants == 3

\* ------------------------------------------------------------------------
\* The pairing E: scalar field and groups
\* ------------------------------------------------------------------------
\* Order of E::ScalarField and of the groups G1, G2, GT
P == 5

Fr == 0 .. (P - 1)

G1 == Fr

G2 == Fr

\* E::G1::generator()
G1generator == 1

\* E::G2::generator()
G2generator == 1

\* E::G1::zero(), E::G2::zero(): the identity
Zero == 0

Add(a, b) == (a + b) % P

\* point.mul(scalar)
Mul(point, scalar) == (point * scalar) % P

\* E::pairing(a, b), as an exponent of e(G, H)
pairing(a, b) == (a * b) % P

RECURSIVE Pow(_, _)
Pow(x, k) == IF k = 0 THEN 1 ELSE (x * Pow(x, k - 1)) % P

Min(a, b) == IF a <= b THEN a ELSE b

\* ------------------------------------------------------------------------
\* Polynomials and the evaluation domain (ark_poly)
\* ------------------------------------------------------------------------
\* DensePolynomial::rand(degree, rng): every outcome of the RNG.  The
\* non-leading coefficients are uniform in Fr, the leading one is non-zero.
DensePolynomial_rand(degree) ==
    { p \in [1 .. degree + 1 -> Fr] : p[degree + 1] # 0 }

\* DensePolynomial::evaluate
RECURSIVE evaluate_from(_, _, _)
evaluate_from(poly, x, k) ==
    IF k > Len(poly) THEN 0
    ELSE (poly[k] + x * evaluate_from(poly, x, k + 1)) % P

evaluate(poly, x) == evaluate_from(poly, x, 1)

RECURSIVE NextPowerOfTwo(_, _)
NextPowerOfTwo(m, n) == IF m >= n THEN m ELSE NextPowerOfTwo(2 * m, n)

\* An element of multiplicative order exactly m
IsPrimitiveRoot(w, m) ==
    /\ Pow(w, m) = 1
    /\ \A k \in 1 .. (m - 1) : Pow(w, k) # 1

\* GeneralEvaluationDomain::new(shares_num): the subgroup of order
\* m = next power of two >= shares_num, with its generator
GeneralEvaluationDomain(shares_num) ==
    LET m == NextPowerOfTwo(1, shares_num)
    IN  [size |-> m,
         group_gen |-> CHOOSE w \in 1 .. (P - 1) : IsPrimitiveRoot(w, m)]

\* domain.element(i) = group_gen^i
element(domain, i) == Pow(domain.group_gen, i)

\* phi.evaluate_over_domain_by_ref(domain).evals
evaluate_over_domain_by_ref(poly, domain) ==
    [i \in 1 .. domain.size |-> evaluate(poly, element(domain, i - 1))]

\* subproductdomain::fast_multiexp(scalars, base): base * scalars[k]
fast_multiexp(scalars, base) ==
    [k \in 1 .. Len(scalars) |-> Mul(base, scalars[k])]

\* domain.fft_in_place(&mut commitment): the vector is resized to the size
\* of the domain and replaced by its evaluations over the domain
RECURSIVE fft_sum(_, _, _, _)
fft_sum(coeffs, x, k, size) ==
    IF k > Min(Len(coeffs), size) THEN 0
    ELSE (Mul(coeffs[k], Pow(x, k - 1)) + fft_sum(coeffs, x, k + 1, size)) % P

fft_in_place(domain, coeffs) ==
    [i \in 1 .. domain.size |->
        fft_sum(coeffs, element(domain, i - 1), 1, domain.size)]

\* ------------------------------------------------------------------------
\* PVSS transcripts (ferveo/src/pvss.rs)
\* ------------------------------------------------------------------------
\* The marker types a transcript can be tagged with (PhantomData<T>)
Unaggregated == "Unaggregated"

Aggregated == "Aggregated"

\* PubliclyVerifiableParams::default()
PubliclyVerifiableParams_default == [g |-> G1generator, h |-> G2generator]

\* struct PubliclyVerifiableSS<E, T>
PubliclyVerifiableSS(coeffs, shares, sigma, T) ==
    [coeffs |-> coeffs, shares |-> shares, sigma |-> sigma, phantom |-> T]

\* No transcript at hand
NoPvss == PubliclyVerifiableSS(<< >>, << >>, Zero, "None")

\* SecretPolynomial::new(s, degree, rng): the random polynomial with its
\* free coefficient overwritten by the secret
SecretPolynomial_new(s, rand) == [rand EXCEPT ![1] = s]

\* PubliclyVerifiableSS::<E, T>::new(s, dkg, rng); rand is the polynomial
\* the RNG yields, T the marker type the caller instantiates the impl with
new(s, dkg, rand, T) ==
    LET phi == SecretPolynomial_new(s, rand)
        evals == evaluate_over_domain_by_ref(phi, dkg.domain)
        coeffs == fast_multiexp(phi, dkg.pvss_params.g)
        n == Len(dkg.validators)
    IN  IF \E k \in 1 .. n : dkg.validators[k].share_index >= Len(evals)
        THEN [status |-> "panic", pvss |-> NoPvss]
        ELSE
          LET shares == [k \in 1 .. n |->
                  Mul(dkg.validators[k].encryption_key,
                      evals[dkg.validators[k].share_index + 1])]
              sigma == Mul(G2generator, s)
          IN  IF Len(shares) # n
              THEN [status |-> "Err(InsufficientValidators)", pvss |-> NoPvss]
              ELSE [status |-> "Ok",
                    pvss |-> PubliclyVerifiableSS(coeffs, shares, sigma, T)]

\* impl Zeroize for SecretPolynomial: every coefficient is overwritten
zeroize(self) == [i \in 1 .. Len(self) |-> 0]

\* impl Drop for SecretPolynomial
drop(self) == zeroize(self)

\* What the locals of PubliclyVerifiableSS::new that were computed from the
\* secret hold when their memory is released, on every exit (return and
\* unwinding alike): phi is a SecretPolynomial and is dropped through
\* drop; evals is the buffer evaluate_over_domain_by_ref returned, a plain
\* Evaluations that is released as it is
released_by_new(s, dkg, rand) ==
    LET phi == SecretPolynomial_new(s, rand)
        evals == evaluate_over_domain_by_ref(phi, dkg.domain)
    IN  [phi |-> drop(phi), evals |-> evals]

\* PubliclyVerifiableSS::verify_optimistic
verify_optimistic(self) ==
    LET pvss_params == PubliclyVerifiableParams_default
    IN  IF Len(self.coeffs) = 0 THEN "panic"
        ELSE IF pairing(self.coeffs[1], pvss_params.h)
                    = pairing(pvss_params.g, self.sigma)
             THEN "true" ELSE "false"

\* assert_no_share_duplicates(validators)
assert_no_share_duplicates(validators) ==
    IF \E i, j \in 1 .. Len(validators) :
           i # j /\ validators[i].share_index = validators[j].share_index
    THEN "Err(DuplicatedShareIndex)"
    ELSE "Ok"

\* do_verify_full
do_verify_full(pvss_coefficients, pvss_encrypted_shares, pvss_params, validators, domain) ==
    LET commitment == fft_in_place(domain, pvss_coefficients)
        zipped == Min(Len(validators), Len(pvss_encrypted_shares))
    IN  IF assert_no_share_duplicates(validators) # "Ok" THEN "panic"
        ELSE IF zipped > Len(commitment) THEN "panic"
        ELSE IF \A k \in 1 .. zipped :
                    pairing(pvss_params.g, pvss_encrypted_shares[k])
                      = pairing(commitment[k], validators[k].encryption_key)
             THEN "true" ELSE "false"

\* PubliclyVerifiableSS::verify_full
verify_full(self, dkg) ==
    do_verify_full(self.coeffs, self.shares, dkg.pvss_params,
                   dkg.validators, dkg.domain)

RECURSIVE sum_constant_terms(_, _)
sum_constant_terms(vss, j) ==
    IF j > Len(vss) THEN Zero
    ELSE Add(vss[j].coeffs[1], sum_constant_terms(vss, j + 1))

\* do_verify_aggregation
do_verify_aggregation(pvss_agg_coefficients, pvss_agg_encrypted_shares, pvss_params, validators, domain, vss) ==
    LET is_valid == do_verify_full(pvss_agg_coefficients,
                                   pvss_agg_encrypted_shares, pvss_params,
                                   validators, domain)
    IN  IF is_valid = "panic" THEN "panic"
        ELSE IF is_valid # "true" THEN "Err(InvalidTranscriptAggregate)"
        ELSE IF \E j \in 1 .. Len(vss) : Len(vss[j].coeffs) = 0 THEN "panic"
        ELSE IF Len(pvss_agg_coefficients) = 0 THEN "panic"
        ELSE IF sum_constant_terms(vss, 1) = pvss_agg_coefficients[1]
             THEN "Ok(true)"
             ELSE "Err(InvalidTranscriptAggregate)"

\* PubliclyVerifiableSS::<E, T: Aggregate>::verify_aggregation
verify_aggregation(self, dkg) ==
    do_verify_aggregation(self.coeffs, self.shares, dkg.pvss_params,
                          dkg.validators, dkg.domain, dkg.vss)

\* scalar.inverse(): None for zero, otherwise the inverse mod P
Inverse(scalar) == Pow(scalar, P - 2)

\* struct PrivateKeyShare; NoPrivateKeyShare stands for no value returned
NoPrivateKeyShare == "None"

\* PubliclyVerifiableSS::decrypt_private_key_share: the bounds check of
\* shares.get(share_index) comes first, then the inverse of the key
decrypt_private_key_share(self, validator_decryption_key, share_index) ==
    IF share_index >= Len(self.shares)
    THEN [status |-> "Err(InvalidShareIndex)",
          index |-> share_index,
          private_key_share |-> NoPrivateKeyShare]
    ELSE IF validator_decryption_key = 0
    THEN [status |-> "panic",
          index |-> share_index,
          private_key_share |-> NoPrivateKeyShare]
    ELSE [status |-> "Ok",
          index |-> share_index,
          private_key_share |->
              Mul(self.shares[share_index + 1],
                  Inverse(validator_decryption_key))]

\* The members of a sequence
Range(seq) == { seq[i] : i \in 1 .. Len(seq) }

\* The product of the scalars of a sequence, from position k on
RECURSIVE ProductFrom(_, _)
ProductFrom(scalars, k) ==
    IF k > Len(scalars) THEN 1
    ELSE (scalars[k] * ProductFrom(scalars, k + 1)) % P

\* ferveo_tdec::lagrange_basis_at(domain_points, x): the values at x of
\* the Lagrange basis polynomials of the points, in the order of the points
lagrange_basis_at(domain_points, x) ==
    [j \in 1 .. Len(domain_points) |->
        ProductFrom([k \in 1 .. Len(domain_points) |->
                        IF k = j THEN 1
                        ELSE ((x + P - domain_points[k])
                                * Inverse((domain_points[j] + P
                                             - domain_points[k]) % P)) % P],
                    1)]

\* ferveo_tdec::prepare_combine_simple(domain_points): the Lagrange
\* coefficients at 0
prepare_combine_simple(domain_points) == lagrange_basis_at(domain_points, 0)

\* The loop of aggregate: pvss = pvss + next_pvss for the transcripts from
\* position j on; zip_eq panics on vectors of different lengths
RECURSIVE aggregate_from(_, _, _)
aggregate_from(acc, pvss_list, j) ==
    IF j > Len(pvss_list) THEN [status |-> "Ok", pvss |-> acc]
    ELSE
      LET next_pvss == pvss_list[j]
      IN  IF \/ Len(acc.coeffs) # Len(next_pvss.coeffs)
             \/ Len(acc.shares) # Len(next_pvss.shares)
          THEN [status |-> "panic", pvss |-> NoPvss]
          ELSE aggregate_from(
                 PubliclyVerifiableSS(
                   [k \in 1 .. Len(acc.coeffs) |->
                       Add(acc.coeffs[k], next_pvss.coeffs[k])],
                   [i \in 1 .. Len(acc.shares) |->
                       Add(acc.shares[i], next_pvss.shares[i])],
                   Add(acc.sigma, next_pvss.sigma),
                   Aggregated),
                 pvss_list, j + 1)

\* aggregate with the proofs of knowledge left out of the sum: sigma stays
\* that of the first transcript
aggregate_sigma_of_first(pvss_list) ==
    IF Len(pvss_list) = 0
    THEN [status |-> "Err(NoTranscriptsToAggregate)", pvss |-> NoPvss]
    ELSE LET first_pvss == pvss_list[1]
             r == aggregate_from(
                    PubliclyVerifiableSS(first_pvss.coeffs, first_pvss.shares,
                                         first_pvss.sigma, Aggregated),
                    pvss_list, 2)
         IN  IF r.status = "Ok"
             THEN [r EXCEPT !.pvss.sigma = first_pvss.sigma]
             ELSE r

\* aggregate(pvss_list)
aggregate(pvss_list) ==
    IF Len(pvss_list) = 0
    THEN [status |-> "Err(NoTranscriptsToAggregate)", pvss |-> NoPvss]
    ELSE LET first_pvss == pvss_list[1]
         IN  aggregate_from(
               PubliclyVerifiableSS(first_pvss.coeffs, first_pvss.shares,
                                    first_pvss.sigma, Aggregated),
               pvss_list, 2)

\* ------------------------------------------------------------------------
\* Bytes, hashes and the AEAD (sha2, chacha20poly1305, hash to curve)
\* ------------------------------------------------------------------------
\* A byte (u8) takes ByteMod values; byte arithmetic wraps around
ByteMod == 2

Byte == 0 .. (ByteMod - 1)

\* The byte strings of at most len bytes
BytesUpTo(len) == UNION { [1 .. l -> Byte] : l \in 0 .. len }

\* point.serialize_uncompressed(&mut bytes): the canonical encoding of a
\* group element, of one fixed length for every element of the group
serialize_uncompressed(point) == << point >>

\* sha256(input): the digest stands for the input it was computed from
\* (no two inputs share a digest)
sha256(input) == [sha256 |-> input]

\* shared_secret_to_chacha(s): the ChaCha20Poly1305 instance keyed with
\* sha256 of the serialized shared secret
shared_secret_to_chacha(s) == [key |-> sha256(serialize_uncompressed(s))]

\* nonce_from_commitment(commitment): the first 12 bytes of sha256 of the
\* serialized commitment
nonce_from_commitment(commitment) ==
    [nonce |-> sha256(serialize_uncompressed(commitment))]

\* The k-th byte of the ChaCha20 key stream: a fixed function of key, nonce
\* and position
keystream(cipher, nonce, k) ==
    (cipher.key.sha256[1] + 2 * nonce.nonce.sha256[1] + k) % ByteMod

RECURSIVE weighted_sum(_, _)
weighted_sum(bytes, k) ==
    IF k > Len(bytes) THEN 0 ELSE k * bytes[k] + weighted_sum(bytes, k + 1)

\* The Poly1305 tag of the encrypted bytes: a fixed function of key, nonce
\* and the bytes
poly1305(cipher, nonce, bytes) ==
    (1 + cipher.key.sha256[1] + nonce.nonce.sha256[1]
       + weighted_sum(bytes, 1)) % ByteMod

\* cipher.encrypt(&nonce, message): the masked message followed by its tag
aead_encrypt(cipher, nonce, message) ==
    LET masked == [k \in 1 .. Len(message) |->
                      (message[k] + keystream(cipher, nonce, k)) % ByteMod]
    IN  Append(masked, poly1305(cipher, nonce, masked))

\* cipher.decrypt(&nonce, ciphertext): Err unless the tag is the one of the
\* masked bytes under this key and nonce
aead_decrypt(cipher, nonce, bytes) ==
    IF Len(bytes) = 0 THEN [status |-> "Err", plaintext |-> << >>]
    ELSE
      LET masked == SubSeq(bytes, 1, Len(bytes) - 1)
      IN  IF bytes[Len(bytes)] # poly1305(cipher, nonce, masked)
          THEN [status |-> "Err", plaintext |-> << >>]
          ELSE [status |-> "Ok",
                plaintext |-> [k \in 1 .. Len(masked) |->
                    (masked[k] + ByteMod - keystream(cipher, nonce, k))
                        % ByteMod]]

\* hash_to_g2(message): a point of G2 whose discrete logarithm nobody
\* knows.  A multiple of a hash point is represented by the message hashed
\* and the scalar; no two messages hash to the same point, no hash point is
\* the identity.
hash_to_g2(message) == [hash_of |-> message, times |-> 1]

\* The identity of G2 among the multiples of hash points
HashPointZero == [hash_of |-> << >>, times |-> 0]

\* point.mul(scalar) for a multiple of a hash point
MulHashPoint(point, scalar) ==
    IF (point.times * scalar) % P = 0 THEN HashPointZero
    ELSE [hash_of |-> point.hash_of, times |-> (point.times * scalar) % P]

\* An element of GT that is a product of pairings with hash points: the set
\* of << message, exponent >> with a non-zero exponent of e(G, hash point)
GTOne == {}

ExponentOf(gt, message) ==
    IF \E e \in gt : e[1] = message
    THEN (CHOOSE e \in gt : e[1] = message)[2]
    ELSE 0

\* E::pairing(a, point) for a multiple of a hash point
pairing_hash(a, point) ==
    IF (a * point.times) % P = 0 THEN GTOne
    ELSE { << point.hash_of, (a * point.times) % P >> }

\* E::multi_pairing([a1, a2], [point1, point2])
multi_pairing(a, points) ==
    LET x == pairing_hash(a[1], points[1])
        y == pairing_hash(a[2], points[2])
        messages == { e[1] : e \in x \cup y }
        exponent(m) == (ExponentOf(x, m) + ExponentOf(y, m)) % P
    IN  { << m, exponent(m) >> : m \in { m \in messages : exponent(m) # 0 } }

\* ------------------------------------------------------------------------
\* TPKE ciphertexts (tpke/src/ciphertext.rs)
\* ------------------------------------------------------------------------
\* struct Ciphertext: U, W and V
Ciphertext(commitment, auth_tag, bytes) ==
    [commitment |-> commitment, auth_tag |-> auth_tag, ciphertext |-> bytes]

\* The inverse of the generator of G1, the g_inv handed to the checks
g_inv == Mul(G1generator, P - 1)

\* construct_tag_hash(commitment, stream_ciphertext, aad)
construct_tag_hash(commitment, stream_ciphertext, aad) ==
    hash_to_g2(serialize_uncompressed(commitment) \o stream_ciphertext \o aad)

\* encrypt with the symmetric key derived from e(pubkey, H) instead of
\* e(r * pubkey, H)
encrypt_key_without_rand_element(message, aad, pubkey, rand_element) ==
    LET g_gen == G1generator
        h_gen == G2generator
        product == pairing(pubkey, h_gen)
        commitment == Mul(g_gen, rand_element)
        cipher == shared_secret_to_chacha(product)
        nonce == nonce_from_commitment(commitment)
        bytes == aead_encrypt(cipher, nonce, message)
        auth_tag == MulHashPoint(construct_tag_hash(commitment, bytes, aad),
                                 rand_element)
    IN  Ciphertext(commitment, auth_tag, bytes)

\* encrypt(message, aad, pubkey, rng); rand_element is the scalar the RNG
\* yields
encrypt(message, aad, pubkey, rand_element) ==
    LET g_gen == G1generator
        h_gen == G2generator
        ry_prep == Mul(pubkey, rand_element)
        product == pairing(ry_prep, h_gen)
        commitment == Mul(g_gen, rand_element)
        cipher == shared_secret_to_chacha(product)
        nonce == nonce_from_commitment(commitment)
        bytes == aead_encrypt(cipher, nonce, message)
        auth_tag == MulHashPoint(construct_tag_hash(commitment, bytes, aad),
                                 rand_element)
    IN  Ciphertext(commitment, auth_tag, bytes)

\* check_ciphertext_validity(c, aad, g_inv)
check_ciphertext_validity(c, aad, g_inverse) ==
    LET hash_g2 == construct_tag_hash(c.commitment, c.ciphertext, aad)
        is_ciphertext_valid ==
            multi_pairing(<< c.commitment, g_inverse >>,
                          << hash_g2, c.auth_tag >>) = GTOne
    IN  IF is_ciphertext_valid THEN "Ok"
        ELSE "Err(CiphertextVerificationFailed)"

\* Ciphertext::construct_tag_hash(&self): the commitment and the bytes V,
\* without associated data
Ciphertext_construct_tag_hash(self) ==
    hash_to_g2(serialize_uncompressed(self.commitment) \o self.ciphertext)

\* Ciphertext::check(&self, g_inv)
check(self, g_inverse) ==
    LET hash_g2 == Ciphertext_construct_tag_hash(self)
    IN  multi_pairing(<< self.commitment, g_inverse >>,
                      << hash_g2, self.auth_tag >>) = GTOne

\* decrypt_with_shared_secret_unchecked(ciphertext, shared_secret)
decrypt_with_shared_secret_unchecked(c, shared_secret) ==
    LET nonce == nonce_from_commitment(c.commitment)
        cipher == shared_secret_to_chacha(shared_secret)
        plaintext == aead_decrypt(cipher, nonce, c.ciphertext)
    IN  IF plaintext.status # "Ok"
        THEN [status |-> "Err(CiphertextVerificationFailed)",
              plaintext |-> << >>]
        ELSE [status |-> "Ok", plaintext |-> plaintext.plaintext]

\* decrypt_symmetric(ciphertext, aad, private_key, g_inv)
decrypt_symmetric(c, aad, private_key, g_inverse) ==
    IF check_ciphertext_validity(c, aad, g_inverse) # "Ok"
    THEN [status |-> "Err(CiphertextVerificationFailed)", plaintext |-> << >>]
    ELSE LET shared_secret == pairing(c.commitment, private_key)
         IN  decrypt_with_shared_secret_unchecked(c, shared_secret)

\* decrypt_with_shared_secret without the check of the ciphertext
decrypt_with_shared_secret_skipping_check(c, aad, shared_secret, g_inverse) ==
    decrypt_with_shared_secret_unchecked(c, shared_secret)

\* decrypt_with_shared_secret(ciphertext, aad, shared_secret, g_inv)
decrypt_with_shared_secret(c, aad, shared_secret, g_inverse) ==
    IF check_ciphertext_validity(c, aad, g_inverse) # "Ok"
    THEN [status |-> "Err(CiphertextVerificationFailed)", plaintext |-> << >>]
    ELSE decrypt_with_shared_secret_unchecked(c, shared_secret)

\* ------------------------------------------------------------------------
\* Decryption shares (tpke/src/decryption.rs)
\* ------------------------------------------------------------------------
\* ValidatorShareChecksum::new: C_i = dk_i^{-1} * U; unwrap() of the
\* inverse panics for dk_i = 0
ValidatorShareChecksum_new(validator_decryption_key, c) ==
    IF validator_decryption_key = 0
    THEN [status |-> "panic", value |-> [checksum |-> Zero]]
    ELSE [status |-> "Ok",
          value |-> [checksum |->
              Mul(c.commitment, Inverse(validator_decryption_key))]]

\* ValidatorShareChecksum::verify
ValidatorShareChecksum_verify(self, decryption_share, share_aggregate, validator_public_key, h, c) ==
    IF decryption_share # pairing(self.checksum, share_aggregate)
    THEN "false"
    ELSE IF pairing(self.checksum, validator_public_key)
              # pairing(c.commitment, h)
    THEN "false"
    ELSE "true"

\* struct DecryptionShareSimple, struct DecryptionShareSimplePrecomputed
DecryptionShare(decrypter_index, decryption_share, validator_checksum) ==
    [decrypter_index |-> decrypter_index,
     decryption_share |-> decryption_share,
     validator_checksum |-> validator_checksum]

\* No decryption share returned
NoShare == DecryptionShare(-1, Zero, [checksum |-> Zero])

\* DecryptionShareSimple::create_unchecked: D_i = e(U, Z_i)
DecryptionShareSimple_create_unchecked(validator_index, validator_decryption_key, private_key_share, c) ==
    LET decryption_share == pairing(c.commitment, private_key_share)
        validator_checksum ==
            ValidatorShareChecksum_new(validator_decryption_key, c)
    IN  IF validator_checksum.status = "panic"
        THEN [status |-> "panic", share |-> NoShare]
        ELSE [status |-> "Ok",
              share |-> DecryptionShare(validator_index, decryption_share,
                                        validator_checksum.value)]

\* DecryptionShareSimple::create
DecryptionShareSimple_create(validator_index, validator_decryption_key, private_key_share, c, aad, g_inverse) ==
    IF check_ciphertext_validity(c, aad, g_inverse) # "Ok"
    THEN [status |-> "Err(CiphertextVerificationFailed)", share |-> NoShare]
    ELSE DecryptionShareSimple_create_unchecked(
             validator_index, validator_decryption_key, private_key_share, c)

\* DecryptionShareSimple::verify
DecryptionShareSimple_verify(self, share_aggregate, validator_public_key, h, c) ==
    ValidatorShareChecksum_verify(self.validator_checksum,
        self.decryption_share, share_aggregate, validator_public_key, h, c)

\* verify_decryption_shares_simple(pub_contexts, ciphertext,
\* decryption_shares): izip! pairs the k-th share with the k-th context and
\* stops at the shorter list; the first invalid share returns false
verify_decryption_shares_simple(pub_contexts, c, decryption_shares) ==
    LET blinded_key_shares ==
            [k \in 1 .. Len(pub_contexts) |->
                pub_contexts[k].blinded_key_share.blinded_key_share]
        zipped == 1 .. Min(Len(decryption_shares), Len(pub_contexts))
        is_valid(k) ==
            DecryptionShareSimple_verify(decryption_shares[k],
                blinded_key_shares[k], pub_contexts[k].validator_public_key,
                pub_contexts[k].h, c)
    IN  IF \E k \in zipped : is_valid(k) # "true" THEN "false" ELSE "true"

\* DecryptionShareSimplePrecomputed::create_unchecked:
\* D_i = e(lambda_i * U, Z_i)
DecryptionShareSimplePrecomputed_create_unchecked(validator_index, validator_decryption_key, private_key_share, c, lagrange_coeff) ==
    LET u_to_lagrange_coeff == Mul(c.commitment, lagrange_coeff)
        decryption_share == pairing(u_to_lagrange_coeff, private_key_share)
        validator_checksum ==
            ValidatorShareChecksum_new(validator_decryption_key, c)
    IN  IF validator_checksum.status = "panic"
        THEN [status |-> "panic", share |-> NoShare]
        ELSE [status |-> "Ok",
              share |-> DecryptionShare(validator_index, decryption_share,
                                        validator_checksum.value)]

\* DecryptionShareSimplePrecomputed::new
DecryptionShareSimplePrecomputed_new(validator_index, validator_decryption_key, private_key_share, c, aad, lagrange_coeff, g_inverse) ==
    IF check_ciphertext_validity(c, aad, g_inverse) # "Ok"
    THEN [status |-> "Err(CiphertextVerificationFailed)", share |-> NoShare]
    ELSE DecryptionShareSimplePrecomputed_create_unchecked(
             validator_index, validator_decryption_key, private_key_share, c,
             lagrange_coeff)

\* DecryptionShareSimplePrecomputed::verify
DecryptionShareSimplePrecomputed_verify(self, share_aggregate, validator_public_key, h, c) ==
    ValidatorShareChecksum_verify(self.validator_checksum,
        self.decryption_share, share_aggregate, validator_public_key, h, c)

\* struct DecryptionShareFast
DecryptionShareFast(decrypter_index, decryption_share) ==
    [decrypter_index |-> decrypter_index,
     decryption_share |-> decryption_share]

\* The sum of the scalars of a sequence, from position k on
RECURSIVE SumFrom(_, _)
SumFrom(scalars, k) ==
    IF k > Len(scalars) THEN 0
    ELSE (scalars[k] + SumFrom(scalars, k + 1)) % P

\* batch_verify_decryption_shares(pub_contexts, ciphertexts,
\* decryption_shares, rng); alpha_ij are the scalars generate_random draws,
\* num_shares of them for each ciphertext.  izip stops at the shortest
\* of its iterators; GT is written additively, its one is 0
batch_verify_decryption_shares(pub_contexts, ciphertexts, decryption_shares, alpha_ij) ==
    IF decryption_shares = << >> \/ pub_contexts = << >>
    THEN "panic"
    ELSE IF \E j \in 1 .. Len(decryption_shares[1]) :
                decryption_shares[1][j].decrypter_index >= Len(pub_contexts)
    THEN "panic"
    ELSE
    LET num_ciphertexts == Len(ciphertexts)
        num_shares == Len(decryption_shares[1])
        blinding_keys ==
            [j \in 1 .. num_shares |->
                pub_contexts[decryption_shares[1][j].decrypter_index + 1]
                    .blinded_key_share.blinding_key_prepared]
        sum_alpha_i == [i \in 1 .. num_ciphertexts |-> SumFrom(alpha_ij[i], 1)]
        sum_u_i ==
            SumFrom([i \in 1 .. num_ciphertexts |->
                        Mul(ciphertexts[i].commitment, sum_alpha_i[i])], 1)
        rows == Min(Len(decryption_shares), num_ciphertexts)
        sum_d_i ==
            [j \in 1 .. num_shares |->
                SumFrom([i \in 1 .. rows |->
                            IF j <= Len(decryption_shares[i])
                            THEN Mul(decryption_shares[i][j].decryption_share,
                                     alpha_ij[i][j])
                            ELSE Zero], 1)]
        product ==
            Add(pairing(sum_u_i, pub_contexts[1].h_inv),
                SumFrom([j \in 1 .. num_shares |->
                            pairing(sum_d_i[j], blinding_keys[j])], 1))
    IN  IF product = 0 THEN "true" ELSE "false"

\* ------------------------------------------------------------------------
\* Share refresh and recovery
\* ------------------------------------------------------------------------
\* make_random_polynomial_with_root(degree, root, rng); rand is the
\* polynomial DensePolynomial::rand(degree, rng) draws
make_random_polynomial_keeping_free_term(degree, root, rand) == rand

make_random_polynomial_with_free_term_not_negated(degree, root, rand) ==
    LET poly == [rand EXCEPT ![1] = 0]
    IN  [poly EXCEPT ![1] = evaluate(poly, root)]

make_random_polynomial_with_root(degree, root, rand) ==
    LET poly == [rand EXCEPT ![1] = 0]
        new_c_0 == (P - evaluate(poly, root)) % P
    IN  [poly EXCEPT ![1] = new_c_0]

\* prepare_share_updates_with_root(domain_points, h, root, threshold, rng)
prepare_share_updates_with_root(domain_points, h, root, threshold, rand) ==
    LET d_i == make_random_polynomial_with_root(threshold - 1, root, rand)
    IN  [i \in 1 .. Len(domain_points) |->
            Mul(h, evaluate(d_i, domain_points[i]))]

\* prepare_share_updates_for_recovery(domain_points, h, x_r, threshold, rng)
prepare_share_updates_for_recovery_with_root_zero(domain_points, h, x_r, threshold, rand) ==
    prepare_share_updates_with_root(domain_points, h, 0, threshold, rand)

prepare_share_updates_for_recovery(domain_points, h, x_r, threshold, rand) ==
    prepare_share_updates_with_root(domain_points, h, x_r, threshold, rand)

\* prepare_share_updates_for_refresh(domain_points, h, threshold, rng)
prepare_share_updates_for_refresh(domain_points, h, threshold, rand) ==
    prepare_share_updates_with_root(domain_points, h, 0, threshold, rand)

\* The fold of apply_updates_to_private_share, from position k on
fold_first_update_only(acc, share_updates, k) ==
    IF k > Len(share_updates) THEN acc ELSE Add(acc, share_updates[k])

RECURSIVE fold_updates(_, _, _)
fold_updates(acc, share_updates, k) ==
    IF k > Len(share_updates) THEN acc
    ELSE fold_updates(Add(acc, share_updates[k]), share_updates, k + 1)

\* apply_updates_to_private_share(private_key_share, share_updates)
apply_updates_ignoring_the_updates(private_key_share, share_updates) ==
    private_key_share

apply_updates_to_private_share(private_key_share, share_updates) ==
    fold_updates(private_key_share, share_updates, 1)

\* The fold of recover_share_from_updated_private_shares over the products
\* y_j * l_j, from position k on
RECURSIVE fold_prods(_, _, _, _)
fold_prods(acc, updated_private_shares, lagrange, k) ==
    IF k > Len(updated_private_shares) THEN acc
    ELSE fold_prods(Add(acc, Mul(updated_private_shares[k], lagrange[k])),
                    updated_private_shares, lagrange, k + 1)

\* recover_share_from_updated_private_shares(x_r, domain_points,
\* updated_private_shares); zip_eq panics on slices of different lengths
recover_share_interpolating_at_zero(x_r, domain_points, updated_private_shares) ==
    LET lagrange == lagrange_basis_at(domain_points, 0)
    IN  IF Len(updated_private_shares) # Len(lagrange)
        THEN [status |-> "panic", private_key_share |-> Zero]
        ELSE [status |-> "Ok",
              private_key_share |->
                  fold_prods(Zero, updated_private_shares, lagrange, 1)]

recover_share_from_updated_private_shares(x_r, domain_points, updated_private_shares) ==
    LET lagrange == lagrange_basis_at(domain_points, x_r)
    IN  IF Len(updated_private_shares) # Len(lagrange)
        THEN [status |-> "panic", private_key_share |-> Zero]
        ELSE [status |-> "Ok",
              private_key_share |->
                  fold_prods(Zero, updated_private_shares, lagrange, 1)]

\* PubliclyVerifiableSS::make_decryption_share_simple_precomputed: the
\* private key share is decrypted first; lagrange_coeffs[share_index] is
\* evaluated as an argument, so an index past the coefficients panics before
\* the ciphertext is checked.  lagrange_coeff is the coefficient handed on
make_decryption_share_simple_precomputed(self, ciphertext_header, aad, validator_decryption_key, share_index, domain_points, g_inverse) ==
    LET private_key_share ==
            decrypt_private_key_share(self, validator_decryption_key,
                                      share_index)
        lagrange_coeffs == prepare_combine_simple(domain_points)
    IN  IF private_key_share.status # "Ok"
        THEN [status |-> private_key_share.status, share |-> NoShare,
              lagrange_coeff |-> Zero]
        ELSE IF share_index >= Len(lagrange_coeffs)
        THEN [status |-> "panic", share |-> NoShare, lagrange_coeff |-> Zero]
        ELSE LET r == DecryptionShareSimplePrecomputed_new(
                          share_index, validator_decryption_key,
                          private_key_share.private_key_share,
                          ciphertext_header, aad,
                          lagrange_coeffs[share_index + 1], g_inverse)
             IN  [status |-> r.status, share |-> r.share,
                  lagrange_coeff |-> lagrange_coeffs[share_index + 1]]

\* ------------------------------------------------------------------------
\* State
\* ------------------------------------------------------------------------
VARIABLES
    dkg,     \* the DKG context (PubliclyVerifiableDkg): dkg_params,
             \* pvss_params, validators (in the order of validators.values()),
             \* domain and the received transcripts vss
    pvss,    \* the transcript at hand
    origin,  \* how the transcript at hand came about: the operation and
             \* the secret given to new
    ret,     \* the last call and what it returned
    polynomials,       \* the secret polynomials of the transcripts in
                       \* dkg.vss, known to their dealers only
    ciphertext,        \* the TPKE ciphertext at hand (struct Ciphertext)
    sent,              \* what the ciphertext at hand was encrypted from
    decryption_share,  \* the decryption share at hand
    share_maker,       \* what the decryption share at hand was made from
    participants,      \* share refresh and recovery: the participants'
                       \* domain points and private key shares
    share_updates,     \* the update vectors prepared in the current round
    sharing,           \* the polynomial the participants' shares were
                       \* dealt from and how the round went so far
    batch              \* the ciphertexts and the lists of decryption
                       \* shares handed to a verifier of many shares

vars == << dkg, pvss, origin, ret, polynomials, ciphertext, sent, decryption_share, share_maker, participants, share_updates, sharing, batch >>

\* The state of the threshold encryption (tpke) and of the share updates
\* (refresh.rs), which the operations on transcripts leave alone
tpke_vars == << ciphertext, sent, decryption_share, share_maker, batch >>

refresh_vars == << participants, share_updates, sharing >>

NoRet == [op |-> "none", value |-> "none"]

NoOrigin == [op |-> "none", s |-> 0]

\* No ciphertext, no decryption share, no round of share updates at hand
NoCiphertext == Ciphertext(Zero, HashPointZero, << >>)

NoSent == [op |-> "none"]

NoDecryptionShare == NoShare

NoShareMaker == [op |-> "none"]

NoParticipants == [domain_points |-> << >>, private_key_shares |-> << >>]

NoShareUpdates == [root |-> Zero, updates |-> << >>]

NoSharing == [op |-> "none"]

NoBatch == [op |-> "none"]

\* The group parameters a DKG context can carry
G1Params == {G1generator, Mul(G1generator, 2)}

G2Params == {G2generator, Mul(G2generator, 2)}

\* The decryption key dk # 0 of the k-th validator's key pair, and its
\* public encryption key ek = dk * H; the validators hold distinct keys
DecryptionKey(k) == P - k

EncryptionKey(k) == Mul(G2generator, DecryptionKey(k))

\* struct Validator: its share index and its public encryption key.  The
\* k-th validator is the k-th one of dkg.validators.values()
Validators(n) ==
    { [k \in 1 .. n |->
          [share_index |-> index[k], encryption_key |-> EncryptionKey(k)]] :
      index \in [1 .. n -> 0 .. (n - 1)] }

\* A DKG context for n validators and threshold t, with no transcript yet
PubliclyVerifiableDkg(n, t, validators, g, h) ==
    [dkg_params |-> [security_threshold |-> t, shares_num |-> n],
     pvss_params |-> [g |-> g, h |-> h],
     validators |-> validators,
     domain |-> GeneralEvaluationDomain(n),
     vss |-> << >>]

Init ==
    /\ \E n \in 1 .. MaxValidators :
       \E t \in 1 .. Min(n, MaxThreshold) :
       \E validators \in Validators(n) :
       \E g \in G1Params, h \in G2Params :
           dkg = PubliclyVerifiableDkg(n, t, validators, g, h)
    /\ pvss = NoPvss
    /\ origin = NoOrigin
    /\ ret = NoRet
    /\ polynomials = << >>
    /\ ciphertext = NoCiphertext
    /\ sent = NoSent
    /\ decryption_share = NoDecryptionShare
    /\ share_maker = NoShareMaker
    /\ participants = NoParticipants
    /\ share_updates = NoShareUpdates
    /\ sharing = NoSharing
    /\ batch = NoBatch

\* ------------------------------------------------------------------------
\* Operations on a single transcript
\* ------------------------------------------------------------------------
\* PubliclyVerifiableSS::<E, T>::new(s, dkg, rng)
New(s, rand, T) ==
    LET r == new(s, dkg, rand, T)
    IN  /\ pvss = NoPvss
        /\ pvss' = IF r.status = "Ok" THEN r.pvss ELSE pvss
        /\ origin' = IF r.status = "Ok" THEN [op |-> "new", s |-> s] ELSE origin
        /\ ret' = [op |-> "new", value |-> r.status,
                   phi |-> SecretPolynomial_new(s, rand),
                   released |-> released_by_new(s, dkg, rand)]
        /\ UNCHANGED << dkg, polynomials, tpke_vars, refresh_vars >>

\* bad_pvss.shares[i] = v, on a transcript returned by new
TamperShare(i, v) ==
    /\ origin.op = "new"
    /\ i < Len(pvss.shares)
    /\ v # pvss.shares[i + 1]
    /\ pvss' = [pvss EXCEPT !.shares[i + 1] = v]
    /\ origin' = [origin EXCEPT !.op = "tamper_share"]
    /\ ret' = NoRet
    /\ UNCHANGED << dkg, polynomials, tpke_vars, refresh_vars >>

\* pvss.sigma = v, on a transcript returned by new
TamperSigma(v) ==
    /\ origin.op = "new"
    /\ pvss' = [pvss EXCEPT !.sigma = v]
    /\ origin' = [origin EXCEPT !.op = "tamper_sigma"]
    /\ ret' = NoRet
    /\ UNCHANGED << dkg, polynomials, tpke_vars, refresh_vars >>

\* A transcript returned by new of which only the first len shares are kept
TruncateShares(len) ==
    /\ origin.op = "new"
    /\ len < Len(pvss.shares)
    /\ pvss' = [pvss EXCEPT !.shares = SubSeq(pvss.shares, 1, len)]
    /\ origin' = [origin EXCEPT !.op = "truncate_shares"]
    /\ ret' = NoRet
    /\ UNCHANGED << dkg, polynomials, tpke_vars, refresh_vars >>

\* pvss.verify_optimistic()
VerifyOptimistic ==
    /\ pvss # NoPvss
    /\ ret' = [op |-> "verify_optimistic", value |-> verify_optimistic(pvss)]
    /\ UNCHANGED << dkg, pvss, origin, polynomials, tpke_vars, refresh_vars >>

\* pvss.verify_full(&dkg)
VerifyFull ==
    /\ pvss # NoPvss
    /\ ret' = [op |-> "verify_full", value |-> verify_full(pvss, dkg)]
    /\ UNCHANGED << dkg, pvss, origin, polynomials, tpke_vars, refresh_vars >>

\* pvss.verify_aggregation(&dkg), available when T: Aggregate
VerifyAggregation ==
    /\ pvss # NoPvss
    /\ pvss.phantom = Aggregated
    /\ ret' = [op |-> "verify_aggregation",
               value |-> verify_aggregation(pvss, dkg)]
    /\ UNCHANGED << dkg, pvss, origin, polynomials, tpke_vars, refresh_vars >>

Next ==
    \/ \E s \in Fr :
       \E rand \in DensePolynomial_rand(dkg.dkg_params.security_threshold - 1) :
       \E T \in {Unaggregated, Aggregated} :
           New(s, rand, T)
    \/ \E i \in 0 .. (MaxValidators - 1), v \in G2 : TamperShare(i, v)
    \/ \E v \in G2 : TamperSigma(v)
    \/ \E len \in 0 .. (MaxValidators - 1) : TruncateShares(len)
    \/ VerifyOptimistic
    \/ VerifyFull
    \/ VerifyAggregation

Spec == Init /\ [][Next]_vars

\* ------------------------------------------------------------------------
\* Dealing and aggregation
\* ------------------------------------------------------------------------
\* A dealer builds a transcript with new and the DKG context stores it in
\* dkg.vss
Deal(s, rand) ==
    LET r == new(s, dkg, rand, Unaggregated)
    IN  /\ pvss = NoPvss
        /\ Len(dkg.vss) < MaxDealers
        /\ r.status = "Ok"
        /\ dkg' = [dkg EXCEPT !.vss = Append(@, r.pvss)]
        /\ polynomials' = Append(polynomials, SecretPolynomial_new(s, rand))
        /\ ret' = [op |-> "deal", value |-> r.status]
        /\ UNCHANGED << pvss, origin, tpke_vars, refresh_vars >>

\* aggregate(&dkg.vss.values()), the transcripts in the order of the map
Aggregate ==
    LET r == aggregate(dkg.vss)
    IN  /\ pvss = NoPvss
        /\ pvss' = IF r.status = "Ok" THEN r.pvss ELSE pvss
        /\ origin' = IF r.status = "Ok"
                     THEN [op |-> "aggregate", s |-> 0] ELSE origin
        /\ ret' = [op |-> "aggregate", value |-> r.status]
        /\ UNCHANGED << dkg, polynomials, tpke_vars, refresh_vars >>

\* aggregated.coeffs[0] = v, on a transcript returned by aggregate
TamperCoeff0(v) ==
    /\ origin.op = "aggregate"
    /\ v # pvss.coeffs[1]
    /\ pvss' = [pvss EXCEPT !.coeffs[1] = v]
    /\ origin' = [origin EXCEPT !.op = "tamper_coeff0"]
    /\ ret' = NoRet
    /\ UNCHANGED << dkg, polynomials, tpke_vars, refresh_vars >>

NextAgg ==
    \/ \E s \in Fr :
       \E rand \in DensePolynomial_rand(dkg.dkg_params.security_threshold - 1) :
           Deal(s, rand)
    \/ Aggregate
    \/ \E v \in G1 : TamperCoeff0(v)
    \/ VerifyOptimistic
    \/ VerifyFull
    \/ VerifyAggregation

SpecAgg == Init /\ [][NextAgg]_vars

\* ------------------------------------------------------------------------
\* Threshold encryption: ciphertexts and their checks
\* ------------------------------------------------------------------------
\* The state before any call of the tpke crate: no DKG is involved
InitTpke ==
    /\ dkg = PubliclyVerifiableDkg(1, 1,
                 << [share_index |-> 0, encryption_key |-> EncryptionKey(1)] >>,
                 G1generator, G2generator)
    /\ pvss = NoPvss
    /\ origin = NoOrigin
    /\ ret = NoRet
    /\ polynomials = << >>
    /\ ciphertext = NoCiphertext
    /\ sent = NoSent
    /\ decryption_share = NoDecryptionShare
    /\ share_maker = NoShareMaker
    /\ participants = NoParticipants
    /\ share_updates = NoShareUpdates
    /\ sharing = NoSharing
    /\ batch = NoBatch

\* The calls below leave the ciphertext as it is: each is made on the
\* ciphertext as encrypt or the tampering left it, not after another call
NoCallYet == ret.op \in {"none", "encrypt"}

\* encrypt(message, aad, &pubkey, rng) for the key pair
\* (pubkey = x * G, privkey = x * H)
Encrypt(message, aad, x, rand_element) ==
    /\ sent = NoSent
    /\ ciphertext' = encrypt(message, aad, Mul(G1generator, x), rand_element)
    /\ sent' = [op |-> "encrypt", message |-> message, aad |-> aad, x |-> x,
                rand_element |-> rand_element]
    /\ ret' = [op |-> "encrypt", value |-> "Ok"]
    /\ UNCHANGED << dkg, pvss, origin, polynomials, decryption_share, share_maker, refresh_vars, batch >>

\* ciphertext.ciphertext = bytes: the bytes V of an output of encrypt are
\* replaced by other bytes
TamperCiphertext(bytes) ==
    /\ sent.op = "encrypt"
    /\ NoCallYet
    /\ bytes # ciphertext.ciphertext
    /\ ciphertext' = [ciphertext EXCEPT !.ciphertext = bytes]
    /\ sent' = [sent EXCEPT !.op = "tamper_ciphertext"]
    /\ ret' = NoRet
    /\ UNCHANGED << dkg, pvss, origin, polynomials, decryption_share, share_maker, refresh_vars, batch >>

\* check_ciphertext_validity(&ciphertext, aad, &g_inv)
CheckCiphertextValidity(aad) ==
    /\ sent # NoSent
    /\ NoCallYet
    /\ ret' = [op |-> "check_ciphertext_validity",
               value |-> check_ciphertext_validity(ciphertext, aad, g_inv),
               aad |-> aad]
    /\ UNCHANGED << dkg, pvss, origin, polynomials, tpke_vars, refresh_vars >>

\* ciphertext.check(&g_inv), next to what check_ciphertext_validity says of
\* the same ciphertext under the associated data it was encrypted with
Check ==
    /\ sent # NoSent
    /\ NoCallYet
    /\ ret' = [op |-> "check", value |-> check(ciphertext, g_inv),
               validity |-> check_ciphertext_validity(ciphertext, sent.aad,
                                                      g_inv)]
    /\ UNCHANGED << dkg, pvss, origin, polynomials, tpke_vars, refresh_vars >>

\* decrypt_symmetric(&ciphertext, aad, &private_key, &g_inv)
DecryptSymmetric(aad, private_key) ==
    LET r == decrypt_symmetric(ciphertext, aad, private_key, g_inv)
    IN  /\ sent # NoSent
        /\ NoCallYet
        /\ ret' = [op |-> "decrypt_symmetric", value |-> r.status,
                   aad |-> aad, private_key |-> private_key,
                   plaintext |-> r.plaintext]
        /\ UNCHANGED << dkg, pvss, origin, polynomials, tpke_vars, refresh_vars >>

\* decrypt_with_shared_secret(&ciphertext, aad, &shared_secret, &g_inv)
DecryptWithSharedSecret(aad, shared_secret) ==
    LET r == decrypt_with_shared_secret(ciphertext, aad, shared_secret, g_inv)
    IN  /\ sent # NoSent
        /\ NoCallYet
        /\ ret' = [op |-> "decrypt_with_shared_secret", value |-> r.status,
                   aad |-> aad, shared_secret |-> shared_secret,
                   plaintext |-> r.plaintext]
        /\ UNCHANGED << dkg, pvss, origin, polynomials, tpke_vars, refresh_vars >>

\* DecryptionShareSimple::create(index, &dk, &private_key_share,
\* &ciphertext, aad, &g_inv) by the k-th validator, whose share in the
\* aggregated transcript is share_aggregate (Y_k) and whose private key
\* share is Z_k = Y_k * dk_k^{-1}
Create(k, share_aggregate, aad) ==
    LET dk == DecryptionKey(k)
        r == DecryptionShareSimple_create(k - 1, dk,
                 Mul(share_aggregate, Inverse(dk)), ciphertext, aad, g_inv)
    IN  /\ sent # NoSent
        /\ NoCallYet
        /\ decryption_share' = r.share
        /\ share_maker' = [op |-> "create", validator |-> k,
                           share_aggregate |-> share_aggregate,
                           lagrange_coeff |-> 1,
                           commitment |-> ciphertext.commitment]
        /\ ret' = [op |-> "create", value |-> r.status, aad |-> aad,
                   share |-> r.share]
        /\ UNCHANGED << dkg, pvss, origin, polynomials, ciphertext, sent, refresh_vars, batch >>

\* DecryptionShareSimplePrecomputed::new(index, &dk, &private_key_share,
\* &ciphertext, aad, &lagrange_coeff, &g_inv) by the k-th validator
PrecomputedNew(k, share_aggregate, aad, lagrange_coeff) ==
    LET dk == DecryptionKey(k)
        r == DecryptionShareSimplePrecomputed_new(k - 1, dk,
                 Mul(share_aggregate, Inverse(dk)), ciphertext, aad,
                 lagrange_coeff, g_inv)
    IN  /\ sent # NoSent
        /\ NoCallYet
        /\ decryption_share' = r.share
        /\ share_maker' = [op |-> "precomputed_new", validator |-> k,
                           share_aggregate |-> share_aggregate,
                           lagrange_coeff |-> lagrange_coeff,
                           commitment |-> ciphertext.commitment]
        /\ ret' = [op |-> "precomputed_new", value |-> r.status, aad |-> aad,
                   share |-> r.share]
        /\ UNCHANGED << dkg, pvss, origin, polynomials, ciphertext, sent, refresh_vars, batch >>

\* DecryptionShareSimple::create_unchecked(index, &dk, &private_key_share,
\* &ciphertext) by the k-th validator, whose share in the aggregated
\* transcript is share_aggregate (Y_k) and whose private key share is
\* Z_k = Y_k * dk_k^{-1}
CreateUnchecked(k, share_aggregate) ==
    LET dk == DecryptionKey(k)
        r == DecryptionShareSimple_create_unchecked(k - 1, dk,
                 Mul(share_aggregate, Inverse(dk)), ciphertext)
    IN  /\ sent # NoSent
        /\ NoCallYet
        /\ decryption_share' = r.share
        /\ share_maker' = [op |-> "create_unchecked", validator |-> k,
                           share_aggregate |-> share_aggregate,
                           lagrange_coeff |-> 1,
                           commitment |-> ciphertext.commitment]
        /\ ret' = [op |-> "create_unchecked", value |-> r.status]
        /\ UNCHANGED << dkg, pvss, origin, polynomials, ciphertext, sent, refresh_vars, batch >>

\* DecryptionShareSimplePrecomputed::create_unchecked(index, &dk,
\* &private_key_share, &ciphertext, &lagrange_coeff) by the k-th validator
PrecomputedCreateUnchecked(k, share_aggregate, lagrange_coeff) ==
    LET dk == DecryptionKey(k)
        r == DecryptionShareSimplePrecomputed_create_unchecked(k - 1, dk,
                 Mul(share_aggregate, Inverse(dk)), ciphertext,
                 lagrange_coeff)
    IN  /\ sent # NoSent
        /\ NoCallYet
        /\ decryption_share' = r.share
        /\ share_maker' = [op |-> "precomputed_create_unchecked",
                           validator |-> k,
                           share_aggregate |-> share_aggregate,
                           lagrange_coeff |-> lagrange_coeff,
                           commitment |-> ciphertext.commitment]
        /\ ret' = [op |-> "precomputed_create_unchecked", value |-> r.status]
        /\ UNCHANGED << dkg, pvss, origin, polynomials, ciphertext, sent, refresh_vars, batch >>

\* The messages and the associated data
Messages == BytesUpTo(MaxMessageLen)

Aads == BytesUpTo(MaxAadLen)

\* The bytes an attacker puts in the place of V
TamperedBytes == BytesUpTo(MaxMessageLen + 2)

\* The lagrange coefficients handed to DecryptionShareSimplePrecomputed::new
LagrangeCoeffs == {1, P - 1}

NextTpke ==
    \/ \E message \in Messages, aad \in Aads, x \in Fr, rand_element \in Fr :
           Encrypt(message, aad, x, rand_element)
    \/ \E bytes \in TamperedBytes : TamperCiphertext(bytes)
    \/ \E aad \in Aads : CheckCiphertextValidity(aad)
    \/ Check
    \/ \E aad \in Aads, private_key \in G2 : DecryptSymmetric(aad, private_key)
    \/ \E aad \in Aads, shared_secret \in Fr :
           DecryptWithSharedSecret(aad, shared_secret)
    \/ \E k \in 1 .. MaxValidators, share_aggregate \in G2, aad \in Aads :
           Create(k, share_aggregate, aad)
    \/ \E k \in 1 .. MaxValidators, share_aggregate \in G2, aad \in Aads :
       \E lagrange_coeff \in LagrangeCoeffs :
           PrecomputedNew(k, share_aggregate, aad, lagrange_coeff)
    \/ \E k \in 1 .. MaxValidators, share_aggregate \in G2 :
           CreateUnchecked(k, share_aggregate)
    \/ \E k \in 1 .. MaxValidators, share_aggregate \in G2 :
       \E lagrange_coeff \in LagrangeCoeffs :
           PrecomputedCreateUnchecked(k, share_aggregate, lagrange_coeff)

SpecTpke == InitTpke /\ [][NextTpke]_vars

\* ------------------------------------------------------------------------
\* Decryption shares and their verification
\* ------------------------------------------------------------------------
\* A decryption share was just made, or made and then altered
ShareAtHand ==
    ret.op \in {"create", "precomputed_new", "create_unchecked",
                "precomputed_create_unchecked", "tamper_decryption_share",
                "tamper_checksum"}
      /\ decryption_share # NoShare

\* share.decryption_share = v: the value D_i of a share just made by
\* DecryptionShareSimple::create_unchecked is altered
TamperDecryptionShare(v) ==
    /\ ShareAtHand
    /\ ret.op = "create_unchecked"
    /\ v # decryption_share.decryption_share
    /\ decryption_share' = [decryption_share EXCEPT !.decryption_share = v]
    /\ ret' = [op |-> "tamper_decryption_share", value |-> "Ok"]
    /\ UNCHANGED << dkg, pvss, origin, polynomials, ciphertext, sent, share_maker, refresh_vars, batch >>

\* share.validator_checksum.checksum = v: the checksum C_i of a share just
\* made by DecryptionShareSimple::create_unchecked is altered
TamperChecksum(v) ==
    /\ ShareAtHand
    /\ ret.op = "create_unchecked"
    /\ v # decryption_share.validator_checksum.checksum
    /\ decryption_share' =
           [decryption_share EXCEPT !.validator_checksum.checksum = v]
    /\ ret' = [op |-> "tamper_checksum", value |-> "Ok"]
    /\ UNCHANGED << dkg, pvss, origin, polynomials, ciphertext, sent, share_maker, refresh_vars, batch >>

\* The ciphertexts a share can be verified against: the one at hand and the
\* encryptions of the same message made with other randomness
KnownCiphertexts ==
    IF sent = NoSent
    THEN {ciphertext}
    ELSE { encrypt(sent.message, sent.aad, Mul(G1generator, sent.x),
                   rand_element) : rand_element \in Fr } \cup {ciphertext}

\* decryption_share.verify(&share_aggregate, &validator_public_key, &h,
\* &ciphertext), against the public key of the j-th validator and h = H
Verify(j, share_aggregate, c) ==
    LET validator_public_key == EncryptionKey(j)
        precomputed == share_maker.op \in {"precomputed_new",
                                           "precomputed_create_unchecked"}
    IN  /\ ShareAtHand
        /\ ret' = [op |-> "verify",
                   value |-> IF precomputed
                             THEN DecryptionShareSimplePrecomputed_verify(
                                      decryption_share, share_aggregate,
                                      validator_public_key, G2generator, c)
                             ELSE DecryptionShareSimple_verify(
                                      decryption_share, share_aggregate,
                                      validator_public_key, G2generator, c),
                   validator |-> j,
                   share_aggregate |-> share_aggregate,
                   validator_public_key |-> validator_public_key,
                   commitment |-> c.commitment,
                   altered |-> ret.op \in {"tamper_decryption_share",
                                           "tamper_checksum"}]
        /\ UNCHANGED << dkg, pvss, origin, polynomials, tpke_vars, refresh_vars >>

NextShares ==
    \/ \E rand_element \in Fr : Encrypt(<< 1 >>, << >>, 1, rand_element)
    \/ \E k \in 1 .. MaxValidators, share_aggregate \in G2 :
           Create(k, share_aggregate, << >>)
    \/ \E k \in 1 .. MaxValidators, share_aggregate \in G2 :
       \E lagrange_coeff \in Fr \ {Zero} :
           PrecomputedNew(k, share_aggregate, << >>, lagrange_coeff)
    \/ \E k \in 1 .. MaxValidators, share_aggregate \in G2 :
           CreateUnchecked(k, share_aggregate)
    \/ \E k \in 1 .. MaxValidators, share_aggregate \in G2 :
       \E lagrange_coeff \in Fr \ {Zero} :
           PrecomputedCreateUnchecked(k, share_aggregate, lagrange_coeff)
    \/ \E v \in Fr : TamperDecryptionShare(v)
    \/ \E v \in G1 : TamperChecksum(v)
    \/ \E j \in 1 .. MaxValidators, share_aggregate \in G2 :
       \E c \in KnownCiphertexts :
           Verify(j, share_aggregate, c)

SpecShares == InitTpke /\ [][NextShares]_vars

\* ------------------------------------------------------------------------
\* Verifying many decryption shares at once
\* ------------------------------------------------------------------------
\* The largest number of ciphertexts of a batch
MaxCiphertexts == 2

\* The scalars generate_random can draw
AlphaScalars == {0, 1, 2}

\* The blinding key b_j # 0 of the validator at position j, and the
\* validators' public decryption contexts of the fast variant
BlindingKey(j) == DecryptionKey(j)

PublicDecryptionContextsFast ==
    [j \in 1 .. MaxValidators |->
        [blinded_key_share |->
             [blinding_key_prepared |-> Mul(G2generator, BlindingKey(j))],
         h_inv |-> Mul(G2generator, P - 1)]]

\* The lists of decrypters: validators (positions), none of them twice
DecrypterLists ==
    { list \in UNION { [1 .. k -> 1 .. MaxValidators] : k \in 1 .. MaxValidators } :
          \A a, b \in 1 .. Len(list) : a # b => list[a] # list[b] }

\* The decrypters make their fast decryption shares D_ij = b_j^{-1} * U_i
\* of the ciphertexts encrypted with the randomness rand_elements, every
\* row listing the decrypters in the same order
MakeFastShares(rand_elements, decrypters) ==
    LET ciphertexts ==
            [i \in 1 .. Len(rand_elements) |->
                encrypt(<< 1 >>, << >>, G1generator, rand_elements[i])]
    IN  /\ batch = NoBatch
        /\ batch' =
               [op |-> "fast",
                ciphertexts |-> ciphertexts,
                decryption_shares |->
                    [i \in 1 .. Len(ciphertexts) |->
                        [j \in 1 .. Len(decrypters) |->
                            DecryptionShareFast(decrypters[j] - 1,
                                Mul(ciphertexts[i].commitment,
                                    Inverse(BlindingKey(decrypters[j]))))]],
                altered |-> << 0, 0 >>]
        /\ ret' = [op |-> "make_fast_shares", value |-> "Ok"]
        /\ UNCHANGED << dkg, pvss, origin, polynomials, ciphertext, sent, decryption_share, share_maker, refresh_vars >>

\* decryption_shares[i][j].decryption_share = v: the value of one share
\* of one ciphertext is altered
AlterFastShare(i, j, v) ==
    /\ batch.op = "fast"
    /\ batch.altered = << 0, 0 >>
    /\ i \in 1 .. Len(batch.decryption_shares)
    /\ j \in 1 .. Len(batch.decryption_shares[i])
    /\ v # batch.decryption_shares[i][j].decryption_share
    /\ batch' = [batch EXCEPT
           !.decryption_shares[i][j].decryption_share = v,
           !.altered = << i, j >>]
    /\ ret' = [op |-> "alter_fast_share", value |-> "Ok"]
    /\ UNCHANGED << dkg, pvss, origin, polynomials, ciphertext, sent, decryption_share, share_maker, refresh_vars >>

\* batch_verify_decryption_shares(&pub_contexts, &ciphertexts,
\* &decryption_shares, rng), the RNG yielding the scalars alpha_ij
BatchVerifyDecryptionShares(alpha_ij) ==
    /\ batch.op = "fast"
    /\ ret.op \in {"make_fast_shares", "alter_fast_share"}
    /\ ret' = [op |-> "batch_verify_decryption_shares",
               value |-> batch_verify_decryption_shares(
                             PublicDecryptionContextsFast, batch.ciphertexts,
                             batch.decryption_shares, alpha_ij),
               alpha_ij |-> alpha_ij]
    /\ UNCHANGED << dkg, pvss, origin, polynomials, tpke_vars, refresh_vars >>

\* The validators' public decryption contexts of the simple variant, for
\* the private key shares Z_j = z_j * H: the blinded key share
\* Y_j = dk_j * Z_j, the public key dk_j * H and h = H
PublicDecryptionContextsSimple(z) ==
    [j \in 1 .. MaxValidators |->
        [blinded_key_share |->
             [blinded_key_share |->
                  Mul(Mul(G2generator, z[j]), DecryptionKey(j))],
         validator_public_key |-> EncryptionKey(j),
         h |-> G2generator]]

\* The decrypters make their simple decryption shares of the ciphertext
\* encrypted with the randomness rand_element, from the private key shares
\* Z_j = z_j * H
MakeSimpleShares(rand_element, decrypters, z) ==
    LET c == encrypt(<< 1 >>, << >>, G1generator, rand_element)
    IN  /\ batch = NoBatch
        /\ batch' =
               [op |-> "simple",
                ciphertext |-> c,
                pub_contexts |-> PublicDecryptionContextsSimple(z),
                decryption_shares |->
                    [j \in 1 .. Len(decrypters) |->
                        DecryptionShareSimple_create_unchecked(
                            decrypters[j] - 1, DecryptionKey(decrypters[j]),
                            Mul(G2generator, z[decrypters[j]]), c).share],
                altered |-> 0]
        /\ ret' = [op |-> "make_simple_shares", value |-> "Ok"]
        /\ UNCHANGED << dkg, pvss, origin, polynomials, ciphertext, sent, decryption_share, share_maker, refresh_vars >>

\* decryption_shares[j].decryption_share = v: the value of one share is
\* altered
AlterSimpleShare(j, v) ==
    /\ batch.op = "simple"
    /\ batch.altered = 0
    /\ j \in 1 .. Len(batch.decryption_shares)
    /\ v # batch.decryption_shares[j].decryption_share
    /\ batch' = [batch EXCEPT
           !.decryption_shares[j].decryption_share = v,
           !.altered = j]
    /\ ret' = [op |-> "alter_simple_share", value |-> "Ok"]
    /\ UNCHANGED << dkg, pvss, origin, polynomials, ciphertext, sent, decryption_share, share_maker, refresh_vars >>

\* verify_decryption_shares_simple(&pub_contexts, &ciphertext,
\* &decryption_shares)
VerifyDecryptionSharesSimple ==
    /\ batch.op = "simple"
    /\ ret.op \in {"make_simple_shares", "alter_simple_share"}
    /\ ret' = [op |-> "verify_decryption_shares_simple",
               value |-> verify_decryption_shares_simple(
                             batch.pub_contexts, batch.ciphertext,
                             batch.decryption_shares)]
    /\ UNCHANGED << dkg, pvss, origin, polynomials, tpke_vars, refresh_vars >>

\* The scalars generate_random draws for the batch at hand
AlphaDraws ==
    IF batch.op # "fast" THEN { << >> }
    ELSE [1 .. Len(batch.ciphertexts) ->
             [1 .. Len(batch.decryption_shares[1]) -> AlphaScalars]]

NextBatch ==
    \/ \E m \in 1 .. MaxCiphertexts :
       \E rand_elements \in [1 .. m -> Fr], decrypters \in DecrypterLists :
           MakeFastShares(rand_elements, decrypters)
    \/ \E i \in 1 .. MaxCiphertexts, j \in 1 .. MaxValidators, v \in G1 :
           AlterFastShare(i, j, v)
    \/ \E alpha_ij \in AlphaDraws : BatchVerifyDecryptionShares(alpha_ij)
    \/ \E rand_element \in Fr, decrypters \in DecrypterLists :
       \E z \in [1 .. MaxValidators -> Fr] :
           MakeSimpleShares(rand_element, decrypters, z)
    \/ \E j \in 1 .. MaxValidators, v \in Fr : AlterSimpleShare(j, v)
    \/ VerifyDecryptionSharesSimple

SpecBatch == InitTpke /\ [][NextBatch]_vars

\* ------------------------------------------------------------------------
\* Threshold decryption with the shares of an aggregated transcript
\* ------------------------------------------------------------------------
\* pvss.decrypt_private_key_share(&dk, share_index)
DecryptPrivateKeyShare(validator_decryption_key, share_index) ==
    LET r == decrypt_private_key_share(pvss, validator_decryption_key,
                                       share_index)
    IN  /\ pvss # NoPvss
        /\ ret' = [op |-> "decrypt_private_key_share",
                   value |-> r.status,
                   validator_decryption_key |-> validator_decryption_key,
                   share_index |-> share_index,
                   result |-> r]
        /\ UNCHANGED << dkg, pvss, origin, polynomials, tpke_vars, refresh_vars >>

NextTdec ==
    \/ \E s \in Fr :
       \E rand \in DensePolynomial_rand(dkg.dkg_params.security_threshold - 1) :
           Deal(s, rand)
    \/ Aggregate
    \/ \E validator_decryption_key \in Fr, share_index \in 0 .. MaxValidators :
           DecryptPrivateKeyShare(validator_decryption_key, share_index)

SpecTdec == Init /\ [][NextTdec]_vars

\* ------------------------------------------------------------------------
\* Combining the precomputed decryption shares of t decrypters
\* ------------------------------------------------------------------------
\* The validators of a set (positions in dkg.validators), in the order of
\* their share indices
RECURSIVE InShareIndexOrder(_)
InShareIndexOrder(decrypters) ==
    IF decrypters = {} THEN << >>
    ELSE LET key(k) == dkg.validators[k].share_index * (MaxValidators + 1) + k
             first == CHOOSE k \in decrypters :
                          \A other \in decrypters : key(k) <= key(other)
         IN  << first >> \o InShareIndexOrder(decrypters \ {first})

\* The domain points of the validators of a sequence
DomainPointsOf(decrypters) ==
    [i \in 1 .. Len(decrypters) |->
        element(dkg.domain, dkg.validators[decrypters[i]].share_index)]

\* Each validator of a set of t decrypters calls
\* aggregate.make_decryption_share_simple_precomputed(&ciphertext, aad,
\* &dk, share_index, &domain_points, &g_inv) with its own key and share
\* index and the domain points of the t decrypters
MakeDecryptionSharesPrecomputed(decrypter_set) ==
    LET decrypters == InShareIndexOrder(decrypter_set)
        domain_points == DomainPointsOf(decrypters)
    IN  /\ origin.op = "aggregate"
        /\ sent # NoSent
        /\ ret.op = "encrypt"
        /\ Cardinality(decrypter_set) = dkg.dkg_params.security_threshold
        /\ ret' = [op |-> "make_decryption_share_simple_precomputed",
                   value |-> "Ok",
                   decrypters |-> decrypters,
                   domain_points |-> domain_points,
                   results |->
                       [i \in 1 .. Len(decrypters) |->
                           make_decryption_share_simple_precomputed(
                               pvss, ciphertext, sent.aad,
                               DecryptionKey(decrypters[i]),
                               dkg.validators[decrypters[i]].share_index,
                               domain_points, g_inv)]]
        /\ UNCHANGED << dkg, pvss, origin, polynomials, tpke_vars, refresh_vars >>

NextCombine ==
    \/ \E s \in Fr :
       \E rand \in DensePolynomial_rand(dkg.dkg_params.security_threshold - 1) :
           Deal(s, rand)
    \/ Aggregate
    \/ /\ origin.op = "aggregate"
       /\ \E rand_element \in Fr :
              Encrypt(<< 1 >>, << >>, pvss.coeffs[1], rand_element)
    \/ \E decrypter_set \in SUBSET (1 .. Len(dkg.validators)) :
           MakeDecryptionSharesPrecomputed(decrypter_set)

SpecCombine == Init /\ [][NextCombine]_vars

\* ------------------------------------------------------------------------
\* Refresh and recovery rounds
\* ------------------------------------------------------------------------
\* n participants hold the shares Z_i = phi(omega_i) * H of a polynomial phi
\* of degree t - 1 with phi(0) = s, at the first n points of the domain
InitRefresh ==
    /\ \E n \in 1 .. MaxParticipants :
       \E t \in 1 .. Min(n, MaxThreshold) :
       \E s \in Fr :
       \E rand \in DensePolynomial_rand(t - 1) :
           LET phi == SecretPolynomial_new(s, rand)
               domain == GeneralEvaluationDomain(n)
               shares == [domain_points |->
                              [i \in 1 .. n |-> element(domain, i - 1)],
                          private_key_shares |->
                              [i \in 1 .. n |->
                                  Mul(G2generator,
                                      evaluate(phi, element(domain, i - 1)))]]
           IN  /\ dkg = PubliclyVerifiableDkg(n, t,
                             [k \in 1 .. n |->
                                 [share_index |-> k - 1,
                                  encryption_key |-> EncryptionKey(k)]],
                             G1generator, G2generator)
               /\ polynomials = << phi >>
               /\ participants = shares
               /\ sharing = [op |-> "setup", original |-> shares,
                             update_polynomials |-> << >>, applied |-> 0,
                             new_share |-> Zero]
    /\ pvss = NoPvss
    /\ origin = NoOrigin
    /\ ret = NoRet
    /\ ciphertext = NoCiphertext
    /\ sent = NoSent
    /\ decryption_share = NoDecryptionShare
    /\ share_maker = NoShareMaker
    /\ share_updates = NoShareUpdates
    /\ batch = NoBatch

\* The members of a sequence at the positions of a set, in their order
RECURSIVE Select(_, _, _)
Select(seq, positions, k) ==
    IF k > Len(seq) THEN << >>
    ELSE (IF k \in positions THEN << seq[k] >> ELSE << >>)
             \o Select(seq, positions, k + 1)

\* make_random_polynomial_with_root(degree, &root, rng), called on its own
\* before the round starts; rand is the polynomial the RNG yields
MakeRandomPolynomialWithRoot(degree, root, rand) ==
    /\ sharing.op = "setup"
    /\ ret = NoRet
    /\ ret' = [op |-> "make_random_polynomial_with_root", value |-> "Ok",
               degree |-> degree, root |-> root, rand |-> rand,
               poly |-> make_random_polynomial_with_root(degree, root, rand)]
    /\ UNCHANGED << dkg, pvss, origin, polynomials, tpke_vars, refresh_vars >>

\* apply_updates_to_private_share(&private_key_share, &share_updates),
\* called on its own before the round starts; both arguments are shared
\* references, which the call cannot write through
ApplyUpdates(private_key_share, updates) ==
    /\ sharing.op = "setup"
    /\ ret = NoRet
    /\ ret' = [op |-> "apply_updates", value |-> "Ok",
               private_key_share |-> private_key_share,
               share_updates |-> updates,
               result |-> apply_updates_to_private_share(private_key_share,
                                                         updates)]
    /\ UNCHANGED << dkg, pvss, origin, polynomials, tpke_vars, refresh_vars >>

\* The next participant calls prepare_share_updates_for_refresh over the
\* domain points of all participants
PrepareShareUpdatesForRefresh(rand) ==
    LET threshold == dkg.dkg_params.security_threshold
    IN  /\ sharing.op \in {"setup", "refresh"}
        /\ Len(share_updates.updates) < Len(participants.domain_points)
        /\ share_updates' =
               [root |-> Zero,
                updates |-> Append(share_updates.updates,
                    prepare_share_updates_for_refresh(
                        participants.domain_points, G2generator, threshold,
                        rand))]
        /\ sharing' = [sharing EXCEPT
               !.op = "refresh",
               !.update_polynomials =
                   Append(@, make_random_polynomial_with_root(
                                 threshold - 1, Zero, rand))]
        /\ ret' = [op |-> "prepare_share_updates_for_refresh", value |-> "Ok"]
        /\ UNCHANGED << dkg, pvss, origin, polynomials, tpke_vars, participants >>

\* The participant at position r leaves with its share; the others are to
\* recover the share at its domain point x_r
RemoveParticipant(r) ==
    LET remaining == (1 .. Len(participants.domain_points)) \ {r}
    IN  /\ sharing.op = "setup"
        /\ r \in 1 .. Len(participants.domain_points)
        /\ participants' =
               [domain_points |->
                    Select(participants.domain_points, remaining, 1),
                private_key_shares |->
                    Select(participants.private_key_shares, remaining, 1)]
        /\ share_updates' = [root |-> participants.domain_points[r],
                             updates |-> << >>]
        /\ sharing' = [sharing EXCEPT !.op = "recovery"]
        /\ ret' = [op |-> "remove_participant", value |-> "Ok"]
        /\ UNCHANGED << dkg, pvss, origin, polynomials, tpke_vars >>

\* The participants are to recover a new share at a point x_r that is not
\* a domain point of theirs
NewParticipant(x_r) ==
    /\ sharing.op = "setup"
    /\ x_r \notin Range(participants.domain_points)
    /\ share_updates' = [root |-> x_r, updates |-> << >>]
    /\ sharing' = [sharing EXCEPT !.op = "new_point"]
    /\ ret' = [op |-> "new_participant", value |-> "Ok"]
    /\ UNCHANGED << dkg, pvss, origin, polynomials, tpke_vars, participants >>

\* The next participant calls prepare_share_updates_for_recovery with root
\* x_r over the domain points of the participants
PrepareShareUpdatesForRecovery(rand) ==
    LET threshold == dkg.dkg_params.security_threshold
    IN  /\ sharing.op \in {"recovery", "new_point"}
        /\ Len(share_updates.updates) < Len(participants.domain_points)
        /\ share_updates' =
               [share_updates EXCEPT !.updates = Append(@,
                    prepare_share_updates_for_recovery(
                        participants.domain_points, G2generator,
                        share_updates.root, threshold, rand))]
        /\ sharing' = [sharing EXCEPT
               !.update_polynomials =
                   Append(@, make_random_polynomial_with_root(
                                 threshold - 1, share_updates.root, rand))]
        /\ ret' = [op |-> "prepare_share_updates_for_recovery", value |-> "Ok"]
        /\ UNCHANGED << dkg, pvss, origin, polynomials, tpke_vars, participants >>

\* Once every participant has prepared its updates, the next participant i
\* calls apply_updates_to_private_share on its share with the i-th entry of
\* every participant's update vector
ApplyUpdatesToPrivateShare ==
    LET i == sharing.applied + 1
        updates_for_participant ==
            [k \in 1 .. Len(share_updates.updates) |->
                share_updates.updates[k][i]]
    IN  /\ sharing.op \in {"refresh", "recovery", "new_point"}
        /\ Len(share_updates.updates) = Len(participants.domain_points)
        /\ i <= Len(participants.domain_points)
        /\ participants' = [participants EXCEPT !.private_key_shares[i] =
               apply_updates_to_private_share(@, updates_for_participant)]
        /\ sharing' = [sharing EXCEPT !.applied = i]
        /\ ret' = [op |-> "apply_updates_to_private_share", value |-> "Ok"]
        /\ UNCHANGED << dkg, pvss, origin, polynomials, tpke_vars, share_updates >>

\* recover_share_from_updated_private_shares(&x_r, &domain_points,
\* &updated_shares) on the points and updated shares of t participants;
\* x_r is 0 after a refresh round and the root of the updates otherwise
RecoverShare(chosen) ==
    LET x_r == IF sharing.op = "refresh" THEN Zero ELSE share_updates.root
        domain_points == Select(participants.domain_points, chosen, 1)
        r == recover_share_from_updated_private_shares(
                 x_r, domain_points,
                 Select(participants.private_key_shares, chosen, 1))
    IN  /\ sharing.op \in {"refresh", "recovery", "new_point"}
        /\ sharing.applied = Len(participants.domain_points)
        /\ chosen \subseteq 1 .. Len(participants.domain_points)
        /\ Cardinality(chosen) = dkg.dkg_params.security_threshold
        /\ ret.op = "apply_updates_to_private_share"
        /\ ret' = [op |-> "recover_share_from_updated_private_shares",
                   value |-> r.status, x_r |-> x_r,
                   domain_points |-> domain_points, result |-> r]
        /\ sharing' = IF sharing.op = "new_point" /\ r.status = "Ok"
                      THEN [sharing EXCEPT !.op = "recovered",
                                           !.new_share = r.private_key_share]
                      ELSE sharing
        /\ UNCHANGED << dkg, pvss, origin, polynomials, tpke_vars, participants, share_updates >>

\* recover_share_from_updated_private_shares(&0, &domain_points,
\* &updated_shares) on the points and updated shares of t participants
\* after a recovery round: the updated shares are interpolated at 0
InterpolateUpdatedSharesAtZero(chosen) ==
    LET domain_points == Select(participants.domain_points, chosen, 1)
        r == recover_share_from_updated_private_shares(
                 Zero, domain_points,
                 Select(participants.private_key_shares, chosen, 1))
    IN  /\ sharing.op \in {"recovery", "new_point"}
        /\ sharing.applied = Len(participants.domain_points)
        /\ chosen \subseteq 1 .. Len(participants.domain_points)
        /\ Cardinality(chosen) = dkg.dkg_params.security_threshold
        /\ ret.op = "apply_updates_to_private_share"
        /\ ret' = [op |-> "interpolate_updated_shares_at_zero",
                   value |-> r.status, x_r |-> Zero,
                   domain_points |-> domain_points, result |-> r]
        /\ UNCHANGED << dkg, pvss, origin, polynomials, tpke_vars, refresh_vars >>

\* recover_share_from_updated_private_shares(&0, ..) on t of the original
\* shares together with the share recovered at the new point x_r
RecoverFromOriginalAndNew(chosen) ==
    LET domain_points ==
            Append(sharing.original.domain_points, share_updates.root)
        private_shares ==
            Append(sharing.original.private_key_shares, sharing.new_share)
        r == recover_share_from_updated_private_shares(
                 Zero, Select(domain_points, chosen, 1),
                 Select(private_shares, chosen, 1))
    IN  /\ sharing.op = "recovered"
        /\ chosen \subseteq 1 .. Len(domain_points)
        /\ Cardinality(chosen) = dkg.dkg_params.security_threshold
        /\ ret' = [op |-> "recover_from_original_and_new",
                   value |-> r.status, x_r |-> Zero,
                   domain_points |-> Select(domain_points, chosen, 1),
                   result |-> r]
        /\ UNCHANGED << dkg, pvss, origin, polynomials, tpke_vars, refresh_vars >>

NextRefresh ==
    \/ \E private_key_share \in G2, len \in 0 .. MaxParticipants :
       \E updates \in [1 .. len -> G2] :
           ApplyUpdates(private_key_share, updates)
    \/ \E degree \in 0 .. MaxThreshold, root \in Fr :
       \E rand \in DensePolynomial_rand(degree) :
           MakeRandomPolynomialWithRoot(degree, root, rand)
    \/ \E rand \in DensePolynomial_rand(dkg.dkg_params.security_threshold - 1) :
           PrepareShareUpdatesForRefresh(rand)
    \/ \E r \in 1 .. MaxParticipants : RemoveParticipant(r)
    \/ \E x_r \in Fr : NewParticipant(x_r)
    \/ \E rand \in DensePolynomial_rand(dkg.dkg_params.security_threshold - 1) :
           PrepareShareUpdatesForRecovery(rand)
    \/ ApplyUpdatesToPrivateShare
    \/ \E chosen \in SUBSET (1 .. MaxParticipants) : RecoverShare(chosen)
    \/ \E chosen \in SUBSET (1 .. MaxParticipants) :
           InterpolateUpdatedSharesAtZero(chosen)
    \/ \E chosen \in SUBSET (1 .. MaxParticipants + 1) :
           RecoverFromOriginalAndNew(chosen)

SpecRefresh == InitRefresh /\ [][NextRefresh]_vars

\* ------------------------------------------------------------------------
\* Properties
\* ------------------------------------------------------------------------
\* The validators of the context have unique share indices
UniqueShareIndices == assert_no_share_duplicates(dkg.validators) = "Ok"

\* The transcript at hand is the one a call of new returned
FromNew == origin.op = "new"

\* The transcript at hand is the output of aggregate, possibly with its
\* coeffs[0] replaced afterwards
FromAggregate == origin.op \in {"aggregate", "tamper_coeff0"}

\* C1: for validators with unique share indices in [0,n), in whatever order
\* the context lists them, verify_full(dkg) of the transcript returned by
\* new(s, dkg) is true.
C1_VerifyFullOfNew ==
    (FromNew /\ UniqueShareIndices /\ ret.op = "verify_full")
        => ret.value = "true"

\* C2: whatever group parameters g and h the DKG context carries,
\* verify_optimistic() of the transcript returned by new(s, dkg) is true.
C2_VerifyOptimisticOfNew ==
    (FromNew /\ ret.op = "verify_optimistic") => ret.value = "true"

\* C3: after a single shares[i] of a transcript returned by new is replaced
\* by a different G2 value, verify_optimistic() is still true and
\* verify_full(dkg) is false.
C3_TamperedShare ==
    origin.op = "tamper_share" =>
        /\ ret.op = "verify_optimistic" => ret.value = "true"
        /\ ret.op = "verify_full" => ret.value = "false"

\* C4: after sigma of a transcript returned by new with secret s is replaced
\* by a G2 value other than h^s, verify_optimistic() is false.
C4_TamperedSigma ==
    ( /\ origin.op = "tamper_sigma"
      /\ pvss.sigma # Mul(dkg.pvss_params.h, origin.s)
      /\ ret.op = "verify_optimistic" )
        => ret.value = "false"

\* C5: new(s, dkg) returns Ok with exactly security_threshold commitments,
\* coeffs[0] = g^s, one share per validator and sigma = h^s, for the g and h
\* of the DKG context.
C5_ShapeOfNew ==
    ret.op = "new" =>
        /\ ret.value = "Ok"
        /\ Len(pvss.coeffs) = dkg.dkg_params.security_threshold
        /\ pvss.coeffs[1] = Mul(dkg.pvss_params.g, origin.s)
        /\ Len(pvss.shares) = Len(dkg.validators)
        /\ pvss.sigma = Mul(dkg.pvss_params.h, origin.s)

\* The transcripts of a list all have as many commitments and as many
\* shares as the first one
EqualShape(pvss_list) ==
    \A j \in 1 .. Len(pvss_list) :
        /\ Len(pvss_list[j].coeffs) = Len(pvss_list[1].coeffs)
        /\ Len(pvss_list[j].shares) = Len(pvss_list[1].shares)

\* sum_j pvss_list[j].coeffs[k], the sum taken from position j on
RECURSIVE SumOfCoeffs(_, _, _)
SumOfCoeffs(pvss_list, k, j) ==
    IF j > Len(pvss_list) THEN Zero
    ELSE Add(pvss_list[j].coeffs[k], SumOfCoeffs(pvss_list, k, j + 1))

\* sum_j pvss_list[j].shares[i], the sum taken from position j on
RECURSIVE SumOfShares(_, _, _)
SumOfShares(pvss_list, i, j) ==
    IF j > Len(pvss_list) THEN Zero
    ELSE Add(pvss_list[j].shares[i], SumOfShares(pvss_list, i, j + 1))

\* sum_j pvss_list[j].sigma, the sum taken from position j on
RECURSIVE SumOfSigmas(_, _)
SumOfSigmas(pvss_list, j) ==
    IF j > Len(pvss_list) THEN Zero
    ELSE Add(pvss_list[j].sigma, SumOfSigmas(pvss_list, j + 1))

\* The list in the order given by the permutation perm of its positions
Reordered(pvss_list, perm) == [j \in 1 .. Len(pvss_list) |-> pvss_list[perm[j]]]

\* C6: aggregate of the empty list is NoTranscriptsToAggregate; for a
\* non-empty list of transcripts of equal shape it is Ok with the pointwise
\* sums of the coeffs, of the shares and of the sigmas, with t coefficients
\* and n shares, and every reordering of the list gives the same result.
C6_AggregateIsPointwiseSum ==
    ret.op = "aggregate" =>
        IF Len(dkg.vss) = 0
        THEN ret.value = "Err(NoTranscriptsToAggregate)"
        ELSE EqualShape(dkg.vss) =>
            /\ ret.value = "Ok"
            /\ Len(pvss.coeffs) = Len(dkg.vss[1].coeffs)
            /\ Len(pvss.coeffs) = dkg.dkg_params.security_threshold
            /\ \A k \in 1 .. Len(pvss.coeffs) :
                   pvss.coeffs[k] = SumOfCoeffs(dkg.vss, k, 1)
            /\ Len(pvss.shares) = Len(dkg.vss[1].shares)
            /\ Len(pvss.shares) = Len(dkg.validators)
            /\ \A i \in 1 .. Len(pvss.shares) :
                   pvss.shares[i] = SumOfShares(dkg.vss, i, 1)
            /\ pvss.sigma = SumOfSigmas(dkg.vss, 1)
            /\ \A perm \in Permutations(1 .. Len(dkg.vss)) :
                   aggregate(Reordered(dkg.vss, perm))
                     = [status |-> "Ok", pvss |-> pvss]

\* Two different transcripts with more than one commitment and more than
\* one share each have been aggregated
C6_Witness ==
    /\ ret.op = "aggregate"
    /\ ret.value = "Ok"
    /\ Len(dkg.vss) >= 2
    /\ dkg.vss[1] # dkg.vss[2]
    /\ dkg.vss[2].sigma # Zero
    /\ Len(pvss.coeffs) >= 2
    /\ Len(pvss.shares) >= 2

\* C7: on an aggregated transcript verify_aggregation(dkg) returns Ok(true)
\* exactly when full verification passes and coeffs[0] is the sum of the
\* coeffs[0] of the aggregated transcripts, Err(InvalidTranscriptAggregate)
\* in every other case; it is Ok(true) for the aggregate of fully valid
\* transcripts.
C7_VerifyAggregation ==
    (FromAggregate /\ ret.op = "verify_aggregation") =>
        /\ ret.value \in {"Ok(true)", "Err(InvalidTranscriptAggregate)"}
        /\ ret.value = "Ok(true)"
             <=> ( /\ verify_full(pvss, dkg) = "true"
                   /\ pvss.coeffs[1] = SumOfCoeffs(dkg.vss, 1, 1) )
        /\ ( /\ origin.op = "aggregate"
             /\ \A j \in 1 .. Len(dkg.vss) :
                    verify_full(dkg.vss[j], dkg) = "true" )
             => ret.value = "Ok(true)"

\* The commitment evaluated at the domain point of a validator: A_i
CommitmentAt(coeffs, validator) ==
    evaluate(coeffs, element(dkg.domain, validator.share_index))

\* C8: for validators with unique share indices, verify_full is true if and
\* only if the transcript holds, for every validator i of the context, a
\* share Y_i with e(g, Y_i) = e(A_i, ek_i); fewer shares are rejected.
C8_VerifyFullIffEveryShare ==
    (UniqueShareIndices /\ ret.op = "verify_full") =>
        ( ret.value = "true"
            <=> \A k \in 1 .. Len(dkg.validators) :
                    /\ k <= Len(pvss.shares)
                    /\ pairing(dkg.pvss_params.g, pvss.shares[k])
                         = pairing(CommitmentAt(pvss.coeffs, dkg.validators[k]),
                                   dkg.validators[k].encryption_key) )

\* C9: with a duplicated share index among the validators, full
\* verification ends with a rejection or an error value, not with an abort.
C9_DuplicateIndexIsRejected ==
    ( /\ ~UniqueShareIndices
      /\ ret.op \in {"verify_full", "verify_aggregation"} )
        => ret.value \in {"false", "Err(DuplicatedShareIndex)",
                          "Err(InvalidTranscriptAggregate)"}

\* C10: new returns a transcript tagged Unaggregated, a transcript tagged
\* Aggregated is the output of aggregate, and verify_aggregation is applied
\* to outputs of aggregate only.
C10_AggregatedOnlyByAggregate ==
    /\ (ret.op = "new" /\ ret.value = "Ok") => pvss.phantom = Unaggregated
    /\ pvss.phantom = Aggregated => FromAggregate
    /\ ret.op = "verify_aggregation" => FromAggregate

\* phi(x) for phi the sum of the dealers' secret polynomials, the sum taken
\* from position j on
RECURSIVE SumOfEvaluations(_, _, _)
SumOfEvaluations(polys, x, j) ==
    IF j > Len(polys) THEN 0
    ELSE (evaluate(polys[j], x) + SumOfEvaluations(polys, x, j + 1)) % P

\* C11: decrypt_private_key_share(dk, share_index) with dk # 0 returns
\* Err(InvalidShareIndex(share_index)) when share_index >= |shares| and
\* shares[share_index] * dk^{-1} otherwise; called on the aggregate of
\* transcripts built by new, by the validator with share index i and key
\* pair (dk_i, ek_i = dk_i*H), it returns phi(omega_i)*H for phi the sum of
\* the dealers' polynomials.
C11_DecryptPrivateKeyShare ==
    ( /\ ret.op = "decrypt_private_key_share"
      /\ ret.validator_decryption_key # 0 ) =>
        /\ IF ret.share_index >= Len(pvss.shares)
           THEN /\ ret.value = "Err(InvalidShareIndex)"
                /\ ret.result.index = ret.share_index
           ELSE /\ ret.value = "Ok"
                /\ ret.result.private_key_share
                     = Mul(pvss.shares[ret.share_index + 1],
                           Inverse(ret.validator_decryption_key))
        /\ \A k \in 1 .. Len(dkg.validators) :
             ( /\ origin.op = "aggregate"
               /\ UniqueShareIndices
               /\ ret.validator_decryption_key = DecryptionKey(k)
               /\ ret.share_index = dkg.validators[k].share_index )
               => /\ ret.value = "Ok"
                  /\ ret.result.private_key_share
                       = Mul(G2generator,
                             SumOfEvaluations(polynomials,
                                 element(dkg.domain, ret.share_index), 1))

\* The ciphertext at hand is the output of encrypt, untouched
FromEncrypt == sent.op = "encrypt"

\* C12: for every message, aad, key pair (pk = x*G, sk = x*H) and
\* encryption randomness r, decrypt_symmetric(encrypt(msg, aad, pk), aad,
\* sk, g^{-1}) returns Ok(msg).
C12_DecryptSymmetricOfEncrypt ==
    ( /\ FromEncrypt
      /\ ret.op = "decrypt_symmetric"
      /\ ret.aad = sent.aad
      /\ ret.private_key = Mul(G2generator, sent.x) )
        => /\ ret.value = "Ok"
           /\ ret.plaintext = sent.message

\* A non-empty message encrypted under a non-empty aad to a non-zero key
\* with non-zero randomness has been decrypted with the private key
C12_Witness ==
    /\ FromEncrypt
    /\ ret.op = "decrypt_symmetric"
    /\ ret.aad = sent.aad
    /\ ret.private_key = Mul(G2generator, sent.x)
    /\ ret.value = "Ok"
    /\ sent.message = << 1 >>
    /\ sent.aad # << >>
    /\ sent.x > 1
    /\ sent.rand_element > 1

\* C13: check_ciphertext_validity accepts an output of encrypt under the
\* aad it was encrypted with, and rejects it with
\* CiphertextVerificationFailed after any change to the bytes V (same aad)
\* and under any other aad (same ciphertext).
C13_CheckCiphertextValidity ==
    ret.op = "check_ciphertext_validity" =>
        /\ (FromEncrypt /\ ret.aad = sent.aad) => ret.value = "Ok"
        /\ (FromEncrypt /\ ret.aad # sent.aad)
               => ret.value = "Err(CiphertextVerificationFailed)"
        /\ (sent.op = "tamper_ciphertext" /\ ret.aad = sent.aad)
               => ret.value = "Err(CiphertextVerificationFailed)"

\* C14: when check_ciphertext_validity(c, aad) fails, decrypt_symmetric,
\* decrypt_with_shared_secret, DecryptionShareSimple::create and
\* DecryptionShareSimplePrecomputed::new return
\* CiphertextVerificationFailed with no plaintext and no decryption share,
\* whatever key material they are given; the create_unchecked forms return
\* a share for every ciphertext.
C14_CheckedBeforeUse ==
    /\ ( /\ ret.op \in {"decrypt_symmetric", "decrypt_with_shared_secret"}
         /\ check_ciphertext_validity(ciphertext, ret.aad, g_inv) # "Ok" )
          => /\ ret.value = "Err(CiphertextVerificationFailed)"
             /\ ret.plaintext = << >>
    /\ ( /\ ret.op \in {"create", "precomputed_new"}
         /\ check_ciphertext_validity(ciphertext, ret.aad, g_inv) # "Ok" )
          => /\ ret.value = "Err(CiphertextVerificationFailed)"
             /\ ret.share = NoShare
    /\ ret.op \in {"create_unchecked", "precomputed_create_unchecked"}
          => /\ ret.value = "Ok"
             /\ decryption_share # NoShare

\* decrypt_with_shared_secret was given the right shared secret and the
\* wrong aad: the bytes would decrypt, the check refuses
C14_Witness ==
    /\ FromEncrypt
    /\ ret.op = "decrypt_with_shared_secret"
    /\ ret.aad # sent.aad
    /\ sent.rand_element # 0
    /\ sent.message # << >>
    /\ ret.shared_secret
         = pairing(ciphertext.commitment, Mul(G2generator, sent.x))
    /\ decrypt_with_shared_secret_unchecked(ciphertext,
                                            ret.shared_secret).status = "Ok"
    /\ ret.value = "Err(CiphertextVerificationFailed)"

\* The share at hand is verified against the validator that made it, with
\* that validator's share of the aggregate
AgainstOwnValidator ==
    /\ ret.validator = share_maker.validator
    /\ ret.share_aggregate = share_maker.share_aggregate

\* The share at hand is verified against the ciphertext it was made for
AgainstOwnCiphertext == ret.commitment = share_maker.commitment

\* C15: DecryptionShareSimple::verify returns true exactly when
\* D_i = e(C_i, Y_i) and e(C_i, pk_i) = e(U, h); a share made by
\* create_unchecked verifies against its own (Y_i, pk_i, h, c); it does not
\* verify once its decryption_share or its checksum was altered, nor against
\* another validator's (Y_j, pk_j), nor against another ciphertext
C15_SimpleShareVerify ==
    (ret.op = "verify" /\ share_maker.op = "create_unchecked") =>
        LET D == decryption_share.decryption_share
            C == decryption_share.validator_checksum.checksum
        IN  /\ (ret.value = "true") <=>
                   /\ D = pairing(C, ret.share_aggregate)
                   /\ pairing(C, ret.validator_public_key)
                          = pairing(ret.commitment, G2generator)
            /\ (~ret.altered /\ AgainstOwnValidator /\ AgainstOwnCiphertext)
                   => ret.value = "true"
            /\ (ret.altered /\ AgainstOwnValidator /\ AgainstOwnCiphertext)
                   => ret.value = "false"
            /\ (~ret.altered /\ ret.validator # share_maker.validator
                            /\ AgainstOwnCiphertext)
                   => ret.value = "false"
            /\ (~ret.altered /\ AgainstOwnValidator /\ ~AgainstOwnCiphertext)
                   => ret.value = "false"

\* C16: a share made by DecryptionShareSimplePrecomputed::new from a valid
\* ciphertext, the validator's key dk_i, its private key share Z_i and any
\* Lagrange coefficient verifies against (Y_i, pk_i = dk_i * h, h, c)
C16_PrecomputedShareVerify ==
    (/\ ret.op = "verify"
     /\ share_maker.op = "precomputed_new"
     /\ AgainstOwnValidator
     /\ AgainstOwnCiphertext) => ret.value = "true"

\* The product in GT of the decryption_share values of a sequence of
\* results, from position k on
RECURSIVE ProductOfShares(_, _)
ProductOfShares(results, k) ==
    IF k > Len(results) THEN 0
    ELSE (results[k].share.decryption_share
            + ProductOfShares(results, k + 1)) % P

\* prod_j D_j^{lambda_j(0)} over the simple shares D_j = e(U, Z_j) of a
\* sequence of decrypters, from position k on
RECURSIVE CombineSimple(_, _, _)
CombineSimple(decrypters, lagrange_coeffs, k) ==
    IF k > Len(decrypters) THEN 0
    ELSE LET dk == DecryptionKey(decrypters[k])
             share_index == dkg.validators[decrypters[k]].share_index
             Z == decrypt_private_key_share(pvss, dk, share_index)
             D == DecryptionShareSimple_create(
                      share_index, dk, Z.private_key_share, ciphertext,
                      sent.aad, g_inv).share.decryption_share
         IN  (D * lagrange_coeffs[k]
                + CombineSimple(decrypters, lagrange_coeffs, k + 1)) % P

\* C17: when each of t decrypters of an aggregated transcript with master
\* secret s calls make_decryption_share_simple_precomputed with its key,
\* its share index and the domain points of the t decrypters, every call
\* uses the Lagrange basis at 0 of the decrypter's own domain point, the
\* product of the t decryption_share values is e(U, s*H), the value that
\* combining the simple shares gives, and decrypt_with_shared_secret
\* recovers the plaintext with it
C17_PrecomputedSharesCombine ==
    (ret.op = "make_decryption_share_simple_precomputed") =>
        LET lagrange_coeffs == lagrange_basis_at(ret.domain_points, 0)
            s == SumOfEvaluations(polynomials, 0, 1)
            shared_secret == ProductOfShares(ret.results, 1)
        IN  /\ \A i \in 1 .. Len(ret.results) :
                   /\ ret.results[i].status = "Ok"
                   /\ ret.results[i].lagrange_coeff = lagrange_coeffs[i]
            /\ shared_secret
                   = pairing(ciphertext.commitment, Mul(G2generator, s))
            /\ shared_secret
                   = CombineSimple(ret.decrypters, lagrange_coeffs, 1)
            /\ decrypt_with_shared_secret(ciphertext, sent.aad,
                                          shared_secret, g_inv)
                   = [status |-> "Ok", plaintext |-> sent.message]

\* The master secret s * H of the sharing: phi(0) * H
MasterSecret == Mul(G2generator, evaluate(polynomials[1], Zero))

\* Some participant's share was changed by the updates it applied
SharesWereUpdated ==
    \E i \in 1 .. Len(participants.private_key_shares) :
        participants.private_key_shares[i]
            \notin Range(sharing.original.private_key_shares)

\* C18: after a refresh round in which every participant prepared updates
\* with prepare_share_updates_for_refresh and every participant applied the
\* entries addressed to it, interpolating any t refreshed shares at 0 gives
\* the original master secret s * H, whatever the update polynomials
C18_RefreshKeepsMasterSecret ==
    (/\ ret.op = "recover_share_from_updated_private_shares"
     /\ sharing.op = "refresh") =>
        /\ ret.x_r = Zero
        /\ ret.result = [status |-> "Ok", private_key_share |-> MasterSecret]

C18_Witness ==
    /\ ret.op = "recover_share_from_updated_private_shares"
    /\ sharing.op = "refresh"
    /\ dkg.dkg_params.security_threshold = 2
    /\ Len(participants.domain_points) = 3
    /\ SharesWereUpdated
    /\ MasterSecret # Zero
    /\ ret.result = [status |-> "Ok", private_key_share |-> MasterSecret]

\* C19: when the remaining participants prepared updates with root x_r, the
\* domain point of the removed participant, and applied them, recovering
\* at x_r from any t of their points and updated shares returns the removed
\* participant's original share phi(x_r) * H
C19_RecoveryAtRemovedPoint ==
    (/\ ret.op = "recover_share_from_updated_private_shares"
     /\ sharing.op = "recovery") =>
        /\ ret.x_r \in Range(sharing.original.domain_points)
        /\ ret.x_r \notin Range(participants.domain_points)
        /\ ret.result =
               [status |-> "Ok",
                private_key_share |->
                    Mul(G2generator, evaluate(polynomials[1], ret.x_r))]
        /\ \A r \in 1 .. Len(sharing.original.domain_points) :
               sharing.original.domain_points[r] = ret.x_r
                   => ret.result.private_key_share
                          = sharing.original.private_key_shares[r]

C19_Witness ==
    /\ ret.op = "recover_share_from_updated_private_shares"
    /\ sharing.op = "recovery"
    /\ dkg.dkg_params.security_threshold = 2
    /\ Len(participants.domain_points) = 2
    /\ SharesWereUpdated
    /\ ret.result.status = "Ok"
    /\ ret.result.private_key_share # Zero
    /\ \E r \in 1 .. Len(sharing.original.domain_points) :
           /\ sharing.original.domain_points[r] = ret.x_r
           /\ sharing.original.private_key_shares[r]
                  = ret.result.private_key_share

\* C20: when a new share was recovered at a point x_r outside the domain
\* from t shares updated with root-x_r update polynomials, any t of the
\* original shares together with the new share at x_r interpolate at 0 to
\* the original master secret s * H
C20_RecoveryAtNewPoint ==
    (ret.op = "recover_from_original_and_new") =>
        /\ share_updates.root \notin Range(sharing.original.domain_points)
        /\ ret.result = [status |-> "Ok", private_key_share |-> MasterSecret]

C20_Witness ==
    /\ ret.op = "recover_from_original_and_new"
    /\ dkg.dkg_params.security_threshold = 2
    /\ share_updates.root \in Range(ret.domain_points)
    /\ share_updates.root # Zero
    /\ SharesWereUpdated
    /\ MasterSecret # Zero
    /\ ret.result = [status |-> "Ok", private_key_share |-> MasterSecret]

\* The sum of the values at x of the update polynomials the participants
\* drew, from position k on
RECURSIVE SumOfUpdates(_, _)
SumOfUpdates(x, k) ==
    IF k > Len(sharing.update_polynomials) THEN 0
    ELSE (evaluate(sharing.update_polynomials[k], x)
            + SumOfUpdates(x, k + 1)) % P

\* The share at the root x_r of the updates was interpolated from t shares
\* updated in a recovery round
RecoveredAtRoot ==
    /\ ret.op = "recover_share_from_updated_private_shares"
    /\ sharing.op \in {"recovery", "recovered"}

\* C21 as stated: after the participants applied updates prepared by
\* prepare_share_updates_for_recovery with root x_r, any t updated shares
\* interpolate at 0 to the original master secret s * H, and at x_r to the
\* share phi(x_r) * H of the original polynomial
C21_RecoveryUpdatesKeepSecret ==
    /\ (ret.op = "interpolate_updated_shares_at_zero") =>
           ret.result = [status |-> "Ok", private_key_share |-> MasterSecret]
    /\ RecoveredAtRoot =>
           ret.result =
               [status |-> "Ok",
                private_key_share |->
                    Mul(G2generator, evaluate(polynomials[1], ret.x_r))]

\* C21 amended: any t updated shares interpolate at x_r to phi(x_r) * H,
\* and at 0 to (s + sum_k d_k(0)) * H for the update polynomials d_k, whose
\* roots are at x_r and not at 0
C21_RecoveryUpdatesShiftSecret ==
    /\ (ret.op = "interpolate_updated_shares_at_zero") =>
           ret.result =
               [status |-> "Ok",
                private_key_share |->
                    Add(MasterSecret, Mul(G2generator, SumOfUpdates(Zero, 1)))]
    /\ RecoveredAtRoot =>
           /\ SumOfUpdates(ret.x_r, 1) = 0
           /\ ret.result =
                  [status |-> "Ok",
                   private_key_share |->
                       Mul(G2generator, evaluate(polynomials[1], ret.x_r))]

C21_Witness ==
    /\ ret.op = "interpolate_updated_shares_at_zero"
    /\ dkg.dkg_params.security_threshold = 2
    /\ share_updates.root # Zero
    /\ SumOfUpdates(Zero, 1) # 0
    /\ ret.result.status = "Ok"
    /\ ret.result.private_key_share # MasterSecret
    /\ ret.result.private_key_share
           = Add(MasterSecret, Mul(G2generator, SumOfUpdates(Zero, 1)))

\* C22: batch_verify_decryption_shares returns true, whatever scalars it
\* draws, when every fast share of every ciphertext is honest, and false
\* when the value of a single share of one ciphertext was altered
C22_BatchVerify ==
    (ret.op = "batch_verify_decryption_shares") =>
        IF batch.altered = << 0, 0 >>
        THEN ret.value = "true"
        ELSE ret.value = "false"

\* C23: on every exit of PubliclyVerifiableSS::new every coefficient of the
\* secret polynomial phi, phi[0] = s included, was overwritten with zero
\* before its memory was released, and no copy of the coefficient vector
\* survives the call
C23_SecretPolynomialIsWiped ==
    (ret.op = "new") =>
        /\ Len(ret.released.phi) = Len(ret.phi)
        /\ \A i \in 1 .. Len(ret.released.phi) : ret.released.phi[i] = 0
        /\ (\E i \in 1 .. Len(ret.phi) : ret.phi[i] # 0)
               => ret.released.evals # ret.phi

C25_ApplyUpdatesIsTheSum ==
    (ret.op = "apply_updates") =>
        /\ ret.result = Add(ret.private_key_share,
                            SumFrom(ret.share_updates, 1))
        /\ \A perm \in Permutations(1 .. Len(ret.share_updates)) :
               apply_updates_to_private_share(ret.private_key_share,
                   [k \in 1 .. Len(ret.share_updates) |->
                       ret.share_updates[perm[k]]]) = ret.result
        /\ (ret.share_updates = << >>) => ret.result = ret.private_key_share

C25_Witness ==
    /\ ret.op = "apply_updates"
    /\ Len(ret.share_updates) = 3
    /\ ret.share_updates[1] # ret.share_updates[2]
    /\ ret.share_updates[3] # Zero
    /\ ret.result # ret.private_key_share
    /\ ret.result = Add(ret.private_key_share, SumFrom(ret.share_updates, 1))

\* C26: Ciphertext::check and check_ciphertext_validity decide the same
\* thing: for a ciphertext and the associated data it was encrypted under,
\* check returns true exactly when check_ciphertext_validity returns Ok, and
\* check accepts every output of encrypt
C26_CheckAgreesWithValidity ==
    ret.op = "check" =>
        /\ ret.value <=> (ret.validity = "Ok")
        /\ sent.op = "encrypt" => ret.value

\* C27: the tag binds the bytes V and the associated data as a pair: when
\* check_ciphertext_validity accepts an output of encrypt whose bytes V may
\* have been replaced, under some associated data, the bytes are those encrypt
\* wrote and the associated data is the one encrypt was given
C27_TagBindsBytesAndAad ==
    (/\ sent # NoSent
     /\ ret.op = "check_ciphertext_validity"
     /\ ret.value = "Ok") =>
        /\ ciphertext.ciphertext =
               encrypt(sent.message, sent.aad, Mul(G1generator, sent.x),
                       sent.rand_element).ciphertext
        /\ ret.aad = sent.aad

\* The share verifies against the public context of the validator its
\* decrypter_index names
VerifiesAgainstNamedContext(share) ==
    LET pub_context == batch.pub_contexts[share.decrypter_index + 1]
    IN  DecryptionShareSimple_verify(share,
            pub_context.blinded_key_share.blinded_key_share,
            pub_context.validator_public_key, pub_context.h,
            batch.ciphertext) = "true"

\* C28: verify_decryption_shares_simple returns true exactly when every
\* supplied share verifies against the public context of the validator named
\* by the share's decrypter_index, for any subset of the decrypters in any
\* order; one invalid share makes the result false
C28_VerifySharesSimple ==
    ret.op = "verify_decryption_shares_simple" =>
        (ret.value = "true" <=>
            \A k \in 1 .. Len(batch.decryption_shares) :
                VerifiesAgainstNamedContext(batch.decryption_shares[k]))

============================================================================
